---- MODULE Spec2Model ----
(***************************************************************************)
(* A model of the core of the compute engine: the scope stack and the      *)
(* identifier registry (compute-engine.ts), the evaluation of a function   *)
(* expression (boxed-function.ts, second revision of the class), the       *)
(* simplification loop, the hold policies, the engine caches, and boxed    *)
(* expressions: canonical form, hash, match, threading, roots, sums,       *)
(* tensors, inverses and indexing sets (boxed-function.ts, solve.ts,       *)
(* library/utils.ts).                                                      *)
(*                                                                         *)
(* Each part of the engine has its own specification over the same         *)
(* variables: SpecScope, SpecDeclare, SpecAssign, SpecSum, SpecEval,       *)
(* SpecSimplify, SpecCheapest, SpecHold, SpecCache and SpecBoxed.          *)
(***************************************************************************)
EXTENDS Integers, Sequences, FiniteSets, TLC

VARIABLES
  scopes,     \* the scope objects, by identity (index); each holds its
              \* parent, limits, assumptions and identifier map
  context,    \* ce.context: the index of the current scope, 0 for null
  scopeOp,    \* the last scope-level operation and what it observed
  stack,      \* the frames of the evaluate call in progress
  evalCall,   \* the outermost evaluate call: status and scope on entry
  simp,       \* the simplify call in progress
  costFn,     \* ce.costFunction, as a table over the expressions
  rules,      \* the rule set handed to replace, as a table
  ch,         \* one call of cheapest: arguments and result
  hm,         \* one call of holdMap / makeCanonicalFunction
  cache,      \* ce._cache
  config,     \* _precision, _numericMode and the configuration epoch
  cacheOp,    \* the last cache() call and what it returned
  bx          \* the boxed expression handled last, and the result

scopeVars == <<scopes, context, scopeOp>>
evalVars == <<stack, evalCall>>
simpVars == <<simp, costFn, rules>>
cacheVars == <<cache, config, cacheOp>>
vars == <<scopes, context, scopeOp, stack, evalCall, simp, costFn,
          rules, ch, hm, cache, config, cacheOp, bx>>

-----------------------------------------------------------------------------
(* Bounds of the model *)

MaxScopes == 3      \* scope objects alive at one time
MaxDefs == 2        \* definition objects the user scopes hold at one time
MaxNesting == 3     \* nesting of the expressions handed to canonical
MaxElements == 2    \* operands of the expressions hashed and matched
MaxLength == 3      \* elements of the lists a function is threaded over
MaxCoefficient == 4 \* absolute value of the coefficients of an equation
MaxPower == 3       \* exponent of the unknown in an equation

-----------------------------------------------------------------------------
(* Scopes: compute-engine.ts *)

\* Number.POSITIVE_INFINITY, the iteration limit of the topmost scope
PositiveInfinity == -1

LimitNames == {"timeLimit", "memoryLimit", "recursionLimit", "iterationLimit"}

\* The limits of the first, topmost scope
RootLimits ==
  [k \in LimitNames |->
     CASE k = "timeLimit" -> 2
       [] k = "memoryLimit" -> 1
       [] k = "recursionLimit" -> 1024
       [] OTHER -> PositiveInfinity]

\* The predicates that can be assumed, and the symbols each refers to
Assumptions == {"x>0", "x<y"}

AssumptionSymbols(a) == IF a = "x>0" THEN {"x"} ELSE {"x", "y"}

\* Identifiers: "Sin" is defined by the library, "1x" is not a valid
\* identifier, "Nothing" can never be declared
Identifiers == {"x", "y", "Sin", "Nothing", "1x"}

isValidIdentifier(id) == id # "1x"

\* No definition for an identifier (the map has no entry)
NoDef ==
  [kind |-> "none", obj |-> 0, inferredDomain |-> FALSE, hasValue |-> FALSE,
   handlers |-> FALSE]

NoIds == [id \in Identifiers |-> NoDef]

\* The optional argument of pushScope: the limits it overrides
NoScopeArg == [k \in {} |-> 0]

ScopeArgs ==
  {NoScopeArg, [k \in {"iterationLimit"} |-> 16],
   [k \in {"recursionLimit"} |-> 2]}

\* pushScope without the copy of the assumptions: the child starts empty
ChildScopeEmpty(p, arg) ==
  [parentScope |-> p,
   limits |-> [k \in LimitNames |->
                 IF k \in DOMAIN arg THEN arg[k] ELSE scopes[p].limits[k]],
   assumptions |-> {},
   ids |-> NoIds,
   saved |-> scopes[p].assumptions]

\* The scope object pushScope creates on top of scope p.  The field
\* saved is a history of the model: the assumptions of the parent when
\* the scope was pushed.
ChildScope(p, arg) ==
  [parentScope |-> p,
   limits |-> [k \in LimitNames |->
                 IF k \in DOMAIN arg THEN arg[k] ELSE scopes[p].limits[k]],
   assumptions |-> scopes[p].assumptions,
   ids |-> NoIds,
   saved |-> scopes[p].assumptions]

\* ce.recursionLimit: the limit of the first scope from the current one
\* that has one; every scope that pushScope makes has one
recursionLimit ==
  IF context = 0 THEN 1024 ELSE scopes[context].limits["recursionLimit"]

\* The number of scopes from scope s up to the topmost one
RECURSIVE Depth(_, _)
Depth(sc, s) == IF s = 0 THEN 0 ELSE 1 + Depth(sc, sc[s].parentScope)

\* ce.context after popScope
PoppedContext == scopes[context].parentScope

NoScopeOp == [op |-> "none"]

\* No boxed expression at hand
NoBoxed == [op |-> "none"]

\* A scope that nothing refers to any more is dropped from the model:
\* the last scope object, once it is no longer the current one and no
\* frame of an evaluation holds it
Collected(sc, ctx) ==
  IF Len(sc) > 0 /\ Len(sc) # ctx /\ stack = <<>>
  THEN SubSeq(sc, 1, Len(sc) - 1)
  ELSE sc

\* pushScope(arg)
PushScope(arg) ==
  /\ Len(scopes) < MaxScopes
  /\ IF context = 0
     THEN /\ scopeOp' = [op |-> "pushScope", threw |-> TRUE]
          /\ UNCHANGED <<scopes, context>>
     ELSE /\ scopes' = Append(scopes, ChildScope(context, arg))
          /\ context' = Len(scopes) + 1
          /\ scopeOp' = [op |-> "pushScope", threw |-> FALSE, arg |-> arg]

\* popScope()
PopScope ==
  IF context = 0
  THEN /\ scopeOp' = [op |-> "popScope", threw |-> TRUE]
       /\ UNCHANGED <<scopes, context>>
  ELSE /\ context' = PoppedContext
       /\ scopes' = Collected(scopes, PoppedContext)
       /\ scopeOp' = [op |-> "popScope", threw |-> FALSE,
                      left |-> scopes[context].assumptions]

\* assume(predicate): the predicate is added to the assumptions of the
\* current scope, unless it is a tautology or a contradiction
Assume(a) ==
  /\ context # 0
  /\ \E added \in BOOLEAN :
       scopes' = [scopes EXCEPT ![context].assumptions =
                    IF added THEN @ \cup {a} ELSE @]
  /\ scopeOp' = [op |-> "assume", threw |-> FALSE]
  /\ UNCHANGED context

\* What forget(symbol) does to a definition of the current scope
Forgotten(d) ==
  IF d.kind = "symbol" THEN [d EXCEPT !.hasValue = FALSE]
  ELSE IF d.kind = "function" THEN [d EXCEPT !.handlers = FALSE]
  ELSE d

\* The assumptions left after forgetting the symbols syms
ForgetAssumptions(as, syms) ==
  {a \in as : AssumptionSymbols(a) \cap syms = {}}

\* forget(symbol) for a string, and forget(undefined) with all = TRUE
Forget(symbol, all) ==
  IF context = 0
  THEN /\ scopeOp' = [op |-> "forget", threw |-> TRUE]
       /\ UNCHANGED <<scopes, context>>
  ELSE LET ids == scopes[context].ids
           syms == IF all THEN {id \in Identifiers : ids[id].kind # "none"}
                   ELSE {symbol}
       IN /\ scopes' =
               [scopes EXCEPT
                  ![context].ids =
                     [id \in Identifiers |->
                        IF id \in syms THEN Forgotten(ids[id]) ELSE ids[id]],
                  ![context].assumptions =
                     IF all THEN {} ELSE ForgetAssumptions(@, syms)]
          /\ scopeOp' = [op |-> "forget", threw |-> FALSE]
          /\ UNCHANGED context

\* lookupSymbol / lookupFunction from scope s: the first definition of
\* the chain for the identifier, NoDef when there is none
RECURSIVE Visible(_, _, _)
Visible(sc, id, s) ==
  IF s = 0 THEN NoDef
  ELSE IF sc[s].ids[id].kind # "none" THEN sc[s].ids[id]
  ELSE Visible(sc, id, sc[s].parentScope)

\* The identifier maps of all the scopes
AllIds == [s \in DOMAIN scopes |-> scopes[s].ids]

\* The identities of the definition objects in use
UsedObjs ==
  {scopes[s].ids[id].obj : s \in DOMAIN scopes, id \in Identifiers} \ {0}

\* The second argument of declare: a domain, a function domain, something
\* that is no domain, a symbol definition (inferred or not), a function
\* definition
DeclareArgs ==
  {"domain", "functionDomain", "invalidDomain", "symbolDef",
   "inferredSymbolDef", "functionDef"}

isSymbolDefinition(arg) == arg \in {"symbolDef", "inferredSymbolDef"}

isFunctionDefinition(arg) == arg = "functionDef"

\* ce.domain(arg) can raise, or give an invalid domain, unless arg is a
\* domain expression
DomainRaises(arg) == arg \notin {"domain", "functionDomain"}

\* The definition object that defineSymbol / defineFunction creates
NewDefinition(arg, obj) ==
  [kind |-> IF arg \in {"functionDef", "functionDomain"} THEN "function"
            ELSE "symbol",
   obj |-> obj,
   inferredDomain |-> arg = "inferredSymbolDef",
   hasValue |-> FALSE,
   handlers |-> arg = "functionDef"]

\* declare without the test of the identifier map
DeclaredNowhere(id) == NoDef

\* The definition that makes declare refuse or update the identifier:
\* the one the identifier map of the current scope holds
DeclaredIn(id) == IF context = 0 THEN NoDef ELSE scopes[context].ids[id]

\* declare(id, arg); withArgs: the identifier was written "f(x)"
Declare(id, withArgs, arg) ==
  LET cur == DeclaredIn(id)
      done(branch, threw) ==
        scopeOp' = [op |-> "declare", threw |-> threw, id |-> id,
                    arg |-> arg, branch |-> branch]
      raise(branch) == done(branch, TRUE) /\ UNCHANGED <<scopes, context>>
  IN
  IF withArgs THEN raise("arguments")
  ELSE IF id = "Nothing"
  THEN done("Nothing", FALSE) /\ UNCHANGED <<scopes, context>>
  ELSE IF cur.kind # "none"
  THEN IF cur.kind = "symbol" /\ cur.inferredDomain
       THEN IF isSymbolDefinition(arg)
            THEN \* def.update(arg): the same object takes the fields of arg
                 /\ \E inferred \in BOOLEAN :
                      scopes' = [scopes EXCEPT
                        ![context].ids[id].inferredDomain = inferred]
                 /\ done("update", FALSE)
                 /\ UNCHANGED context
            ELSE \* def.domain = this.domain(arg): for something that is
                 \* no domain, domain() throws in strict mode and returns
                 \* an invalid domain otherwise
                 \/ DomainRaises(arg) /\ raise("domain")
                 \/ /\ scopes' = [scopes EXCEPT
                           ![context].ids[id].inferredDomain = FALSE]
                    /\ done("redeclare", FALSE)
                    /\ UNCHANGED context
       ELSE raise("declared")
  ELSE IF ~isSymbolDefinition(arg) /\ ~isFunctionDefinition(arg)
          /\ DomainRaises(arg)
  THEN raise("domain")
  ELSE IF context = 0 \/ ~isValidIdentifier(id)
  THEN raise("identifier")
  ELSE /\ Cardinality(UsedObjs) <= MaxDefs
       /\ LET obj == CHOOSE n \in 1..(MaxDefs + 2) : n \notin UsedObjs
          IN scopes' = [scopes EXCEPT
                          ![context].ids[id] = NewDefinition(arg, obj)]
       /\ done("define", FALSE)
       /\ UNCHANGED context

\* lookupSymbol / lookupFunction: the first scope of the chain from s
\* whose map holds a definition of that kind for the identifier, 0 when
\* there is none
RECURSIVE LookupScope(_, _, _, _)
LookupScope(sc, id, s, kind) ==
  IF s = 0 THEN 0
  ELSE IF sc[s].ids[id].kind = kind THEN s
  ELSE LookupScope(sc, id, sc[s].parentScope, kind)

\* The second argument of assign: undefined, an expression with a value,
\* a function
AssignValues == {"undefined", "value", "function"}

\* assign(id, value)
Assign(id, value) ==
  LET symScope == LookupScope(scopes, id, context, "symbol")
      removed == IF symScope = 0 THEN scopes
                 ELSE [scopes EXCEPT ![symScope].ids[id] = NoDef]
      fnScope == LookupScope(removed, id, context, "function")
      obj == CHOOSE n \in 1..(MaxDefs + 2) : n \notin UsedObjs
      done(threw) ==
        scopeOp' = [op |-> "assign", threw |-> threw, id |-> id,
                    value |-> value]
      raise == done(TRUE) /\ UNCHANGED <<scopes, context>>
  IN
  IF id = "Nothing" THEN done(FALSE) /\ UNCHANGED <<scopes, context>>
  ELSE IF symScope # 0 /\ ~scopes[symScope].ids[id].inferredDomain
          /\ value = "function"
  THEN raise
  ELSE IF symScope # 0 /\ value # "function"
  THEN \* the definition is taken out, given the value, and put back
       /\ scopes' = [scopes EXCEPT
                       ![symScope].ids[id].hasValue = (value = "value")]
       /\ done(FALSE)
       /\ UNCHANGED context
  ELSE IF fnScope # 0
  THEN \* the definition is taken out of its scope; with a value, a new
       \* one is defined in that scope
       /\ Cardinality(UsedObjs) <= MaxDefs
       /\ scopes' = [removed EXCEPT ![fnScope].ids[id] =
                       IF value = "undefined" THEN NoDef
                       ELSE NewDefinition("functionDef", obj)]
       /\ done(FALSE)
       /\ UNCHANGED context
  ELSE IF context = 0 \/ ~isValidIdentifier(id)
  THEN raise
  ELSE /\ Cardinality(UsedObjs) <= MaxDefs
       /\ \/ /\ value = "undefined"
             /\ scopes' = [removed EXCEPT ![context].ids[id] =
                             NewDefinition("inferredSymbolDef", obj)]
          \/ /\ value = "function"
             /\ scopes' = [removed EXCEPT ![context].ids[id] =
                             NewDefinition("functionDef", obj)]
          \/ /\ value = "value"
             /\ \E inferred \in BOOLEAN :
                  scopes' = [removed EXCEPT ![context].ids[id] =
                               [NewDefinition("symbolDef", obj) EXCEPT
                                  !.hasValue = TRUE,
                                  !.inferredDomain = inferred]]
       /\ done(FALSE)
       /\ UNCHANGED context

\* The index of the sums, and a definition object not yet in use
SumIndex == "x"

FreeObj(sc) ==
  CHOOSE n \in 1..(MaxDefs + 4) :
    n \notin {sc[s].ids[id].obj : s \in DOMAIN sc, id \in Identifiers}

\* ce.box(['Sum', body, indexingSet]), canonicalSummation: a scope is
\* pushed, canonicalIndexingSet declares the index in it, the body is made
\* canonical and the scope is popped.  The body is bound in the pushed
\* scope, unless it was canonical already: it then stays bound in the
\* scope of the caller.  The scope object lives as long as the sum.
CanonicalSummation(bodyCanonical) ==
  /\ bx = NoBoxed
  /\ context # 0
  /\ LET pushed == Len(scopes) + 1
         sc == Append(scopes, ChildScope(context, NoScopeArg))
     IN /\ scopes' = [sc EXCEPT ![pushed].ids[SumIndex] =
                        NewDefinition("domain", FreeObj(sc))]
        /\ bx' = [op |-> "Sum", index |-> SumIndex,
                  scope |-> IF bodyCanonical THEN context ELSE pushed]
  /\ scopeOp' = [op |-> "canonicalSummation"]
  /\ UNCHANGED context

\* ce.assign(index, i), i a number, from scope ctx of sc
AssignedNumber(sc, ctx, id) ==
  LET symScope == LookupScope(sc, id, ctx, "symbol")
      fnScope == LookupScope(sc, id, ctx, "function")
  IN IF symScope # 0
     THEN [sc EXCEPT ![symScope].ids[id].hasValue = TRUE]
     ELSE IF fnScope # 0
     THEN [sc EXCEPT ![fnScope].ids[id] =
             NewDefinition("functionDef", FreeObj(sc))]
     ELSE [sc EXCEPT ![ctx].ids[id] =
             [NewDefinition("symbolDef", FreeObj(sc)) EXCEPT
                !.hasValue = TRUE]]

\* evalSummation on the sum boxed last: without a usable indexing set or
\* range it returns at once; otherwise it swaps to the scope of the body,
\* pushes a scope, assigns the index for each term, pops the scope and
\* swaps back.  The sum and the scopes only it referred to are dropped.
EvalSummation ==
  /\ bx.op = "Sum"
  /\ context # 0
  /\ \/ scopes' = SubSeq(scopes, 1, context)
     \/ LET pushed == Len(scopes) + 1
            sc == Append(scopes, ChildScope(bx.scope, NoScopeArg))
        IN scopes' = SubSeq(AssignedNumber(sc, pushed, bx.index), 1, context)
  /\ bx' = NoBoxed
  /\ scopeOp' = [op |-> "evalSummation"]
  /\ UNCHANGED context

\* The engine as the constructor leaves it: the topmost scope holds the
\* library, and a fresh "user" scope is pushed on top of it
LibraryDefinition ==
  [kind |-> "function", obj |-> 1, inferredDomain |-> FALSE,
   hasValue |-> FALSE, handlers |-> TRUE]

RootScope ==
  [parentScope |-> 0, limits |-> RootLimits, assumptions |-> {},
   ids |-> [NoIds EXCEPT !["Sin"] = LibraryDefinition], saved |-> {}]

UserScope ==
  [parentScope |-> 1, limits |-> RootLimits, assumptions |-> {},
   ids |-> NoIds, saved |-> {}]

InitScopes ==
  /\ scopes = <<RootScope, UserScope>>
  /\ context = 2
  /\ scopeOp = NoScopeOp

-----------------------------------------------------------------------------
(* BoxedFunction.evaluate, makeCanonicalFunction, evalSummation *)

MaxEvalScopes == 4  \* scope objects alive during one evaluation
MaxDepth == 3       \* nested frames of one evaluation
MaxTerms == 1       \* terms of a sum

\* What the definition of the head of an expression makes evaluate do:
\* no definition, an inert function, a threadable function over a
\* collection, an evaluate / N handler, the handler of Sum
DefKinds == {"none", "inert", "threadable", "evaluate", "sum"}

\* A function expression, as far as evaluate looks at it.  scope is the
\* scope a canonical expression was bound in (0 when not canonical);
\* canonicalOf tells what its canonical form is headed by; compound: the
\* head is itself an expression; canonicalHandler: the head has a
\* canonical handler that opens a scope (canonicalSummation)
EvalExpr(valid, canonical, compound, canonicalHandler, def, nops, scope) ==
  [isValid |-> valid, isCanonical |-> canonical, compound |-> compound,
   canonicalHandler |-> canonicalHandler, def |-> def, nops |-> nops,
   scope |-> scope]

\* The expressions evaluate can be called on at the outermost level
TopExprs ==
  {EvalExpr(FALSE, FALSE, FALSE, FALSE, "none", 0, 0)}
  \cup {EvalExpr(TRUE, TRUE, FALSE, FALSE, d, n, s) :
          d \in DefKinds, n \in 0..1, s \in DOMAIN scopes}
  \cup {EvalExpr(TRUE, FALSE, c, h, d, n, 0) :
          c \in BOOLEAN, h \in BOOLEAN, d \in DefKinds, n \in 0..1}

\* The operands, heads and summands of an expression bound in scope s:
\* canonical expressions, bound with it
SubExprs(s) ==
  {EvalExpr(TRUE, TRUE, FALSE, FALSE, d, 0, s) :
     d \in {"none", "evaluate", "sum"}}

Top == stack[Len(stack)]

Replaced(f) == [stack EXCEPT ![Len(stack)] = f]

EvalFrame(e) ==
  [kind |-> "evaluate", pc |-> "start", expr |-> e, saved |-> 0,
   entry |-> context, left |-> e.nops]

SumFrame(e) ==
  [kind |-> "summation", pc |-> "start", expr |-> e, saved |-> 0,
   entry |-> context, left |-> 0]

NoCall == [status |-> "none"]

\* The scope objects still referred to once the outermost call is over
Kept(sc, ctx, entry) ==
  LET RECURSIVE ChainMax(_)
      ChainMax(x) ==
        IF x = 0 THEN 0
        ELSE LET m == ChainMax(sc[x].parentScope) IN IF x > m THEN x ELSE m
      need == LET a == ChainMax(ctx) b == ChainMax(entry)
              IN IF a > b THEN a ELSE b
  IN SubSeq(sc, 1, need)

\* An error is raised: no frame of evaluate or evalSummation catches it,
\* the outermost call ends with the scope as it is now
Raise ==
  /\ stack' = <<>>
  /\ evalCall' = [evalCall EXCEPT !.status = "raised"]
  /\ scopes' = Kept(scopes, context, evalCall.entry)
  /\ UNCHANGED context

\* The frame on top returns to its caller
Exit ==
  /\ stack # <<>> /\ Top.pc = "exit"
  /\ stack' = SubSeq(stack, 1, Len(stack) - 1)
  /\ IF Len(stack) = 1
     THEN /\ evalCall' = [evalCall EXCEPT !.status = "returned"]
          /\ scopes' = Kept(scopes, context, evalCall.entry)
     ELSE UNCHANGED <<evalCall, scopes>>
  /\ UNCHANGED context

\* The step of a frame that calls pushScope and goes to pc
Pushing(pc) ==
  IF context = 0 THEN Raise
  ELSE /\ Len(scopes) < MaxEvalScopes
       /\ scopes' = Append(scopes, ChildScope(context, NoScopeArg))
       /\ context' = Len(scopes) + 1
       /\ stack' = Replaced([Top EXCEPT !.pc = pc])
       /\ UNCHANGED evalCall

\* The step of a frame that calls popScope and goes to pc
Popping(pc) ==
  IF context = 0 THEN Raise
  ELSE /\ context' = PoppedContext
       /\ stack' = Replaced([Top EXCEPT !.pc = pc])
       /\ UNCHANGED <<scopes, evalCall>>

\* The step of a frame that calls evaluate on e and goes on at pc
Calling(e, pc) ==
  /\ Len(stack) < MaxDepth
  /\ stack' = Append(Replaced([Top EXCEPT !.pc = pc]), EvalFrame(e))
  /\ UNCHANGED <<scopes, context, evalCall>>

Goto(pc) ==
  /\ stack' = Replaced([Top EXCEPT !.pc = pc])
  /\ UNCHANGED <<scopes, context, evalCall>>

\* expr.evaluate() called from outside
EvalCall(e) ==
  /\ stack = <<>>
  /\ stack' = <<EvalFrame(e)>>
  /\ evalCall' = [status |-> "running", entry |-> context]
  /\ UNCHANGED <<scopes, context>>

\* evaluate, 1/: use the canonical form
EvalStart ==
  /\ stack # <<>> /\ Top.kind = "evaluate" /\ Top.pc = "start"
  /\ IF ~Top.expr.isValid THEN Goto("exit")
     ELSE IF ~Top.expr.isCanonical THEN Pushing("canonical")
     ELSE IF Top.expr.def = "threadable" THEN Goto("thread")
     ELSE Goto("operands")

\* this.canonical, makeCanonicalFunction: a compound head is evaluated in
\* a scope of its own
CanonicalHead ==
  /\ stack # <<>> /\ Top.kind = "evaluate" /\ Top.pc = "canonical"
  /\ IF Top.expr.compound THEN Pushing("head") ELSE Goto("handler?")

CanonicalHeadEvaluate ==
  /\ stack # <<>> /\ Top.kind = "evaluate" /\ Top.pc = "head"
  /\ \E e \in SubExprs(context) : Calling(e, "headDone")

CanonicalHeadDone ==
  /\ stack # <<>> /\ Top.kind = "evaluate" /\ Top.pc = "headDone"
  /\ Popping("handler?")

\* makeCanonicalFunction, 3/: the canonical handler, inside try/catch.
\* canonicalSummation pushes a scope and pops it at its end; an error
\* raised in between is caught by makeCanonicalFunction, which then
\* returns a non-canonical expression
CanonicalHandler ==
  /\ stack # <<>> /\ Top.kind = "evaluate" /\ Top.pc = "handler?"
  /\ IF ~Top.expr.canonicalHandler THEN Goto("canonicalDone")
     ELSE IF context = 0 THEN Goto("canonicalFailed")
     ELSE \/ Goto("canonicalDone")
          \/ /\ Len(scopes) < MaxEvalScopes
             /\ scopes' = Append(scopes, ChildScope(context, NoScopeArg))
             /\ context' = Len(scopes) + 1
             /\ stack' = Replaced([Top EXCEPT !.pc = "canonicalFailed"])
             /\ UNCHANGED evalCall

\* evaluate, 1/ continued: popScope, then evaluate the canonical form,
\* which was bound in the scope that 1/ pushed
CanonicalDone ==
  /\ stack # <<>> /\ Top.kind = "evaluate"
  /\ Top.pc \in {"canonicalDone", "canonicalFailed"}
  /\ IF context = 0 THEN Raise
     ELSE /\ context' = PoppedContext
          /\ stack' = Replaced(
               IF Top.pc = "canonicalFailed" THEN [Top EXCEPT !.pc = "exit"]
               ELSE [Top EXCEPT !.pc = "start",
                                !.expr.isCanonical = TRUE,
                                !.expr.scope = context])
          /\ UNCHANGED <<scopes, evalCall>>

\* evaluate, 2/ and 3/: the operands (or the elements of the collection
\* a threadable function is mapped over) are evaluated in turn
EvalOperand ==
  /\ stack # <<>> /\ Top.kind = "evaluate"
  /\ Top.pc \in {"operands", "thread"}
  /\ IF Top.left = 0
     THEN Goto(IF Top.pc = "thread" \/ Top.expr.def \in {"inert", "none"}
               THEN "exit" ELSE "swap")
     ELSE \E e \in SubExprs(Top.expr.scope) :
            /\ Len(stack) < MaxDepth
            /\ stack' = Append(Replaced([Top EXCEPT !.left = @ - 1]),
                               EvalFrame(e))
            /\ UNCHANGED <<scopes, context, evalCall>>

\* evaluate, 6/: swap to the scope of the expression and call the handler
EvalSwap ==
  /\ stack # <<>> /\ Top.kind = "evaluate" /\ Top.pc = "swap"
  /\ context' = Top.expr.scope
  /\ stack' = Replaced([Top EXCEPT !.pc = "handler", !.saved = context])
  /\ UNCHANGED <<scopes, evalCall>>

\* The evaluate / N handler: it returns, or raises (a timeout), or it is
\* the handler of Sum, which calls evalSummation
EvalHandler ==
  /\ stack # <<>> /\ Top.kind = "evaluate" /\ Top.pc = "handler"
  /\ IF Top.expr.def = "sum"
     THEN \E body \in SubExprs(Top.expr.scope) :
            /\ Len(stack) < MaxDepth
            /\ stack' = Append(Replaced([Top EXCEPT !.pc = "restore"]),
                               SumFrame(body))
            /\ UNCHANGED <<scopes, context, evalCall>>
     ELSE Goto("restore") \/ Raise

\* evaluate, 6/ continued: swap back to the scope saved before the call
EvalRestore ==
  /\ stack # <<>> /\ Top.kind = "evaluate" /\ Top.pc = "restore"
  /\ context' = Top.saved
  /\ stack' = Replaced([Top EXCEPT !.pc = "exit"])
  /\ UNCHANGED <<scopes, evalCall>>

\* evalSummation: without a usable indexing set it returns at once;
\* otherwise it swaps to the scope of the body and pushes a scope
SumStart ==
  /\ stack # <<>> /\ Top.kind = "summation" /\ Top.pc = "start"
  /\ \/ Goto("exit")
     \/ /\ context' = Top.expr.scope
        /\ stack' = Replaced([Top EXCEPT !.pc = "push", !.saved = context])
        /\ UNCHANGED <<scopes, evalCall>>

SumPush ==
  /\ stack # <<>> /\ Top.kind = "summation" /\ Top.pc = "push"
  /\ \E n \in 0..MaxTerms :
       IF context = 0 THEN Raise
       ELSE /\ Len(scopes) < MaxEvalScopes
            /\ scopes' = Append(scopes, ChildScope(context, NoScopeArg))
            /\ context' = Len(scopes) + 1
            /\ stack' = Replaced([Top EXCEPT !.pc = "terms", !.left = n,
                                             !.expr.scope = Len(scopes) + 1])
            /\ UNCHANGED evalCall

\* evalSummation: each term assigns the index and evaluates the body
SumTerm ==
  /\ stack # <<>> /\ Top.kind = "summation" /\ Top.pc = "terms"
  /\ IF Top.left = 0 THEN Goto("pop")
     ELSE /\ Len(stack) < MaxDepth
          /\ stack' = Append(Replaced([Top EXCEPT !.left = @ - 1]),
                             EvalFrame(Top.expr))
          /\ UNCHANGED <<scopes, context, evalCall>>

SumPop ==
  /\ stack # <<>> /\ Top.kind = "summation" /\ Top.pc = "pop"
  /\ Popping("swap")

SumRestore ==
  /\ stack # <<>> /\ Top.kind = "summation" /\ Top.pc = "swap"
  /\ context' = Top.saved
  /\ stack' = Replaced([Top EXCEPT !.pc = "exit"])
  /\ UNCHANGED <<scopes, evalCall>>

-----------------------------------------------------------------------------
(* BoxedFunction.simplify and cheapest: boxed-function.ts *)

NExpr == 2          \* expressions that simplify can come across
MaxLimit == 2       \* the largest finite iteration limit configured

\* null: no expression
Null == 0

\* The expressions, by identity
Expr == 1..NExpr

\* The values ce.costFunction takes in simplify: 6 is within 1.2 times 5
\* and 7 is not
Costs == {5, 6, 7}

\* The new form always wins
cheapestAlwaysNew(oldExpr, newExpr) ==
  IF newExpr = Null THEN oldExpr ELSE newExpr

\* The new form wins only when it is strictly cheaper
cheapestStrict(oldExpr, newExpr) ==
  IF newExpr = Null THEN oldExpr
  ELSE IF oldExpr = newExpr THEN oldExpr
  ELSE IF costFn[newExpr] < costFn[oldExpr] THEN newExpr
  ELSE oldExpr

\* cheapest(oldExpr, newExpr): costFunction(new) <= 1.2 * costFunction(old),
\* on integer costs
cheapest(oldExpr, newExpr) ==
  IF newExpr = Null THEN oldExpr
  ELSE IF oldExpr = newExpr THEN oldExpr
  ELSE IF 10 * costFn[newExpr] <= 12 * costFn[oldExpr] THEN newExpr
  ELSE oldExpr

\* expr.replace(rules): the rule set rewrites an expression to another
\* one, or no rule applies (null); the same each time
replace(expr) == rules[expr]

\* ce.iterationLimit: the limit of the first scope from the current one
\* that has one; every scope that pushScope makes has one
iterationLimit ==
  IF context = 0 THEN 1024 ELSE scopes[context].limits["iterationLimit"]

\* n < limit, the limit being a number or +Infinity
Less(n, limit) == limit = PositiveInfinity \/ n < limit

\* iterationCount += 1; past every finite limit only the parity of the
\* count is kept
Incremented(n) == IF n = MaxLimit + 2 THEN MaxLimit + 1 ELSE n + 1

\* A scope pushed with an iteration limit of its own
LimitedScope(n) ==
  [parentScope |-> 2, limits |-> [RootLimits EXCEPT !["iterationLimit"] = n],
   assumptions |-> {}, ids |-> NoIds, saved |-> {}]

NoSimplify == [pc |-> "idle"]

\* simplify() is called on a valid, canonical expression with a named
\* head.  input is the expression of the outermost call, seen the forms
\* the call has considered so far.
SimplifyCall(e, recursive) ==
  /\ simp.pc \in {"idle", "returned"}
  /\ simp' = [pc |-> "expand", this |-> e, recursive |-> recursive,
              expr |-> Null, count |-> 0, input |-> e, nested |-> FALSE,
              seen |-> {e}, result |-> Null]
  /\ UNCHANGED <<costFn, rules>>

\* 2/ expand: when it gives a form, that form is simplified, not
\* recursively, and the cheapest of this and the outcome is returned
SimplifyExpand ==
  /\ simp.pc = "expand"
  /\ \E expanded \in Expr \cup {Null} :
       simp' = IF simp.recursive /\ expanded # Null
               THEN [simp EXCEPT !.pc = "handler", !.this = expanded,
                                 !.recursive = FALSE, !.nested = TRUE,
                                 !.seen = @ \cup {expanded}]
               ELSE [simp EXCEPT !.pc = "handler"]
  /\ UNCHANGED <<costFn, rules>>

\* 3/ and 5/: the expression is rebuilt from its (simplified) operands,
\* the simplify handler of the definition may give another form
SimplifyHandler ==
  /\ simp.pc = "handler"
  /\ \E rebuilt \in Expr, handled \in Expr \cup {Null} :
       simp' = [simp EXCEPT
                  !.pc = "loop",
                  !.expr = cheapest(simp.this,
                             IF handled = Null THEN rebuilt
                             ELSE cheapest(rebuilt, handled)),
                  !.count = 0,
                  !.seen = @ \cup {rebuilt} \cup ({handled} \ {Null})]
  /\ UNCHANGED <<costFn, rules>>

\* 6/ one iteration of the do ... while loop
SimplifyLoop ==
  /\ simp.pc = "loop"
  /\ LET newExpr == replace(simp.expr)
         expr == IF newExpr # Null THEN cheapest(simp.expr, newExpr)
                 ELSE simp.expr
         done == IF newExpr # Null THEN expr = newExpr ELSE TRUE
         iterationCount == Incremented(simp.count)
     IN simp' = [simp EXCEPT
                   !.pc = IF ~done /\ Less(iterationCount, iterationLimit)
                          THEN "loop" ELSE "loopDone",
                   !.expr = expr,
                   !.count = iterationCount,
                   !.seen = @ \cup ({newExpr} \ {Null})]
  /\ UNCHANGED <<costFn, rules>>

\* return cheapest(this, expr); the call nested in 2/ returns to
\* return cheapest(this, expr) of the outer call
SimplifyReturn ==
  /\ simp.pc = "loopDone"
  /\ LET inner == cheapest(simp.this, simp.expr)
     IN simp' = [simp EXCEPT
                   !.pc = "returned",
                   !.result = IF simp.nested THEN cheapest(simp.input, inner)
                              ELSE inner]
  /\ UNCHANGED <<costFn, rules>>

\* One call of cheapest
CheapestCall ==
  /\ ch.pc = "call"
  /\ ch' = [ch EXCEPT !.pc = "done", !.result = cheapest(ch.old, ch.new)]
  /\ UNCHANGED costFn

-----------------------------------------------------------------------------
(* holdMap, shouldHold and the operand loop of makeCanonicalFunction *)

MaxOps == 3         \* operands of a function expression

Holds == {"all", "none", "first", "rest", "last", "most"}

\* The head of an operand: Hold, ReleaseHold (with one operand), or any
\* other head.  The operands are taken after flattenOps: none of them is
\* headed by the associative head.
Heads == {"Hold", "ReleaseHold", "Other"}

\* last and most decided on the operand count, not on the last index
shouldHoldOffByOne(skip, count, index) ==
  CASE skip = "all" -> TRUE
    [] skip = "none" -> FALSE
    [] skip = "first" -> index = 0
    [] skip = "rest" -> index # 0
    [] skip = "last" -> index = count + 1
    [] skip = "most" -> index # count + 1
    [] OTHER -> TRUE

\* shouldHold(skip, count, index): index counts from 0, count is the
\* last index
shouldHold(skip, count, index) ==
  CASE skip = "all" -> TRUE
    [] skip = "none" -> FALSE
    [] skip = "first" -> index = 0
    [] skip = "rest" -> index # 0
    [] skip = "last" -> index = count
    [] skip = "most" -> index # count
    [] OTHER -> TRUE

\* An element of the result: operand i as it was given
AsGiven(i) == [pos |-> i, by |-> "given"]

\* An element of the result: what f (or canonicalisation) made of
\* operand i, or of the operand of operand i
Processed(i, of) == [pos |-> i, by |-> "f", of |-> of]

NoHoldMap == [pc |-> "idle"]

\* A call: holdMap(xs, skip, '', f) or the operand loop of
\* makeCanonicalFunction for a definition with def.hold = skip.  nulls:
\* the operands for which f returns null.  calls logs the calls of f.
HoldCall(fn, xs, skip, nulls) ==
  [pc |-> "start", fn |-> fn, xs |-> xs, skip |-> skip, nulls |-> nulls,
   i |-> 1, result |-> <<>>, calls |-> {}]

\* y = f(op); if (y !== null) result.push(y)
Applied(h, of) ==
  [h EXCEPT !.calls = @ \cup {Processed(h.i, of)},
            !.result = IF h.i \in h.nulls THEN @
                       ELSE Append(@, Processed(h.i, of)),
            !.i = @ + 1]

\* result.push(x)
Pushed(h) == [h EXCEPT !.result = Append(@, AsGiven(h.i)), !.i = @ + 1]

\* holdMap up to its loops: the empty list, the fast path of 'all'
HoldMapStart ==
  /\ hm.pc = "start" /\ hm.fn = "holdMap"
  /\ hm' = IF Len(hm.xs) = 0 THEN [hm EXCEPT !.pc = "done"]
           ELSE IF hm.skip = "all"
           THEN [hm EXCEPT !.pc = "done",
                           !.result = [i \in 1..Len(hm.xs) |-> AsGiven(i)]]
           ELSE IF hm.skip = "none" THEN [hm EXCEPT !.pc = "none"]
           ELSE [hm EXCEPT !.pc = "loop"]

\* One iteration of the loop for 'none'
HoldMapNone ==
  /\ hm.pc = "none"
  /\ hm' = IF hm.i > Len(hm.xs) THEN [hm EXCEPT !.pc = "done"]
           ELSE LET h == hm.xs[hm.i]
                IN IF h = "Hold" THEN Pushed(hm)
                   ELSE Applied(hm, IF h = "ReleaseHold" THEN "op1"
                                    ELSE "operand")

\* One iteration of the loop for the other policies
HoldMapLoop ==
  /\ hm.pc = "loop"
  /\ hm' = IF hm.i > Len(hm.xs) THEN [hm EXCEPT !.pc = "done"]
           ELSE LET h == hm.xs[hm.i]
                IN IF h = "Hold" THEN Pushed(hm)
                   ELSE IF h = "ReleaseHold" THEN Applied(hm, "op1")
                   ELSE IF ~shouldHold(hm.skip, Len(hm.xs) - 1, hm.i - 1)
                   THEN Applied(hm, "operand")
                   ELSE Pushed(hm)

\* One iteration of the operand loop of makeCanonicalFunction: ce.box
\* makes the operand canonical, unless it is held
CanonicalOperand ==
  /\ hm.pc = "start" /\ hm.fn = "makeCanonicalFunction"
  /\ hm' = IF hm.i > Len(hm.xs) THEN [hm EXCEPT !.pc = "done"]
           ELSE IF ~shouldHold(hm.skip, Len(hm.xs) - 1, hm.i - 1)
           THEN Applied(hm, "operand")
           ELSE IF hm.xs[hm.i] = "ReleaseHold" THEN Applied(hm, "op1")
           ELSE Pushed(hm)

-----------------------------------------------------------------------------
(* The caches: cache, reset, and the setters of precision and numericMode *)

\* Math.floor(MACHINE_PRECISION)
MachinePrecision == 15

\* The precision of an engine made without options
DefaultPrecision == 100

NumericModes == {"auto", "machine", "bignum", "complex"}

\* The numbers precision is set to: none, a display precision below the
\* machine's, the machine's, the default, a larger one
Precisions == {0, 10, MachinePrecision, DefaultPrecision, 200}

CacheNames == {"rules", "constants"}

\* What a cache entry can hold.  truthy: how JavaScript reads the value
\* as a condition.  fresh is a history of the model: the value was built
\* under the current precision and numeric mode, or went through the
\* purge callback of the entry when they last changed.
Undefined == [kind |-> "undefined", truthy |-> FALSE, fresh |-> TRUE]

Built(truthy) == [kind |-> "value", truthy |-> truthy, fresh |-> TRUE]

\* The purge callback of an entry: none, one that returns the value, one
\* that returns undefined
Purges == {"none", "returns value", "returns undefined"}

NoEntry == [present |-> FALSE, purge |-> "none", value |-> Undefined]

\* purge(value)
Purged(purge, value) ==
  IF purge = "returns undefined" THEN Undefined ELSE value

\* reset(), the loop over the caches.  changed: the precision or the
\* numeric mode is not what it was.
reset(c, changed) ==
  [k \in CacheNames |->
     IF ~c[k].present THEN c[k]
     ELSE IF c[k].value.truthy
     THEN IF c[k].purge = "none" THEN NoEntry
          ELSE [c[k] EXCEPT !.value = Purged(c[k].purge, @)]
     ELSE [c[k] EXCEPT
             !.value.fresh = ~(changed /\ c[k].value.kind = "value")]]

NoCacheOp == [op |-> "none"]

\* get precision()
precision ==
  IF config.numericMode \in {"machine", "complex"} THEN MachinePrecision
  ELSE config.precision

\* The engine as the constructor leaves it for the options numericMode
\* and numericPrecision
Constructed(numericMode, numericPrecision) ==
  [precision |-> IF numericPrecision > MachinePrecision
                 THEN numericPrecision ELSE MachinePrecision,
   numericMode |-> numericMode]

\* cache(cacheName, build, purge); build returns a value or throws
Cache(name, build, purge) ==
  /\ IF ~cache[name].present
     THEN IF build = "throws"
          THEN /\ cacheOp' = [op |-> "cache", name |-> name,
                              value |-> Undefined, built |-> TRUE]
               /\ UNCHANGED cache
          ELSE LET value == Built(build = "truthy")
               IN /\ cache' = [cache EXCEPT ![name] =
                                 [present |-> TRUE, purge |-> purge,
                                  value |-> value]]
                  /\ cacheOp' = [op |-> "cache", name |-> name,
                                 value |-> value, built |-> TRUE]
     ELSE /\ cacheOp' = [op |-> "cache", name |-> name,
                         value |-> cache[name].value, built |-> FALSE]
          /\ UNCHANGED cache
  /\ UNCHANGED config

\* set precision(p); machine: p is 'machine'
SetPrecision(p, machine) ==
  LET q == IF machine THEN MachinePrecision ELSE p
      effective == IF q > MachinePrecision THEN q ELSE MachinePrecision
      numericMode ==
        IF config.numericMode \notin {"auto", "bignum"}
           /\ effective > MachinePrecision
        THEN "auto" ELSE config.numericMode
      after == [precision |-> effective, numericMode |-> numericMode]
  IN /\ cacheOp' = [op |-> "precision", p |-> q,
                     threw |-> q # config.precision /\ q <= 0]
     /\ IF q = config.precision \/ q <= 0 THEN UNCHANGED <<cache, config>>
        ELSE /\ config' = after
             /\ cache' = reset(cache, after # config)

\* set numericMode(f)
SetNumericMode(f) ==
  LET after == [precision |-> IF f \in {"complex", "machine"}
                              THEN MachinePrecision ELSE config.precision,
                numericMode |-> f]
  IN /\ cacheOp' = [op |-> "numericMode", threw |-> FALSE]
     /\ IF f = config.numericMode THEN UNCHANGED <<cache, config>>
        ELSE /\ config' = after
             /\ cache' = reset(cache, TRUE)

-----------------------------------------------------------------------------
(* Boxed function expressions and their canonical form *)

\* A boxed expression is a record: its head (for a symbol, its name), its
\* operands and whether it is its own canonical form (_canonical === this)
Symbols == {"a", "b", "Nothing"}

BoxedSymbol(name) == [head |-> name, ops |-> <<>>, canonical |-> TRUE]

BoxedFunction(head, ops, canonical) ==
  [head |-> head, ops |-> ops, canonical |-> canonical]

\* ce.error(...): an Error expression, never canonical; its message is
\* left out
ErrorExpression == BoxedFunction("Error", <<>>, FALSE)

\* x.op1
op1(x) == IF Len(x.ops) = 0 THEN BoxedSymbol("Nothing") ELSE x.ops[1]

RECURSIVE isValid(_)
isValid(x) ==
  /\ x.head # "Error"
  /\ \A i \in 1..Len(x.ops) : isValid(x.ops[i])

RECURSIVE isSame(_, _)
isSame(lhs, rhs) ==
  /\ Len(lhs.ops) = Len(rhs.ops)
  /\ lhs.head = rhs.head
  /\ \A i \in 1..Len(lhs.ops) : isSame(lhs.ops[i], rhs.ops[i])

\* The definition of the head g: its flags, its hold policy and what its
\* canonical handler does, if it has one
Handlers == {"none", "result", "nothing", "throws"}

FunctionDefinitions ==
  {d \in [hold : Holds, associative : BOOLEAN, commutative : BOOLEAN,
          involution : BOOLEAN, idempotent : BOOLEAN,
          canonical : Handlers] :
     d.canonical # "none" =>
       ~(d.associative \/ d.commutative \/ d.involution \/ d.idempotent)}

\* ce.lookupFunction(head): g is the one head with a definition
Declared(head) == head = "g"

\* The rank of a head in the canonical order
HeadRank(head) ==
  CASE head = "a" -> 1
    [] head = "b" -> 2
    [] head = "Nothing" -> 3
    [] head = "Add" -> 4
    [] head = "Multiply" -> 5
    [] head = "g" -> 6
    [] head = "ReleaseHold" -> 7
    [] head = "Sequence" -> 8
    [] OTHER -> 9

\* order(a, b): negative when a comes first; symbols by name before
\* function expressions, these by head, then by their operands in turn
RECURSIVE orderOps(_, _)
RECURSIVE order(_, _)
order(a, b) ==
  IF HeadRank(a.head) # HeadRank(b.head)
  THEN (IF HeadRank(a.head) < HeadRank(b.head) THEN -1 ELSE 1)
  ELSE orderOps(a.ops, b.ops)

orderOps(xs, ys) ==
  IF Len(xs) = 0 THEN (IF Len(ys) = 0 THEN 0 ELSE -1)
  ELSE IF Len(ys) = 0 THEN 1
  ELSE IF order(Head(xs), Head(ys)) # 0 THEN order(Head(xs), Head(ys))
  ELSE orderOps(Tail(xs), Tail(ys))

RECURSIVE Inserted(_, _)
Inserted(x, xs) ==
  IF Len(xs) = 0 THEN <<x>>
  ELSE IF order(x, Head(xs)) <= 0 THEN <<x>> \o xs
  ELSE <<Head(xs)>> \o Inserted(x, Tail(xs))

\* xs.sort(order)
RECURSIVE sort(_)
sort(xs) == IF Len(xs) = 0 THEN <<>> ELSE Inserted(Head(xs), sort(Tail(xs)))

\* flattenSequence: f(a, Sequence(b, c), d) -> f(a, b, c, d)
RECURSIVE flattenSequence(_)
flattenSequence(xs) ==
  IF Len(xs) = 0 THEN <<>>
  ELSE (IF Head(xs).head = "Sequence" THEN flattenSequence(Head(xs).ops)
        ELSE <<Head(xs)>>) \o flattenSequence(Tail(xs))

\* flattenOps: f(a, f(b, c)) -> f(a, b, c), for the head given
RECURSIVE flattenOps(_, _)
flattenOps(xs, head) ==
  IF Len(xs) = 0 THEN <<>>
  ELSE (IF Head(xs).head = head THEN flattenOps(Head(xs).ops, head)
        ELSE <<Head(xs)>>) \o flattenOps(Tail(xs), head)

\* x.canonical and makeCanonicalFunction(ce, head, ops), under the
\* definition def of g.  No head of the model is one of the numeric short
\* paths, and the signature of g takes any number of operands of any
\* domain, so that adjustArguments has nothing to adjust.
RECURSIVE canonical(_, _)
RECURSIVE makeCanonicalFunction(_, _, _)
canonical(def, x) ==
  IF x.head \in Symbols \/ x.canonical THEN x
  ELSE IF ~isValid(x) THEN x
  ELSE makeCanonicalFunction(def, x.head, x.ops)

makeCanonicalFunction(def, head, ops) ==
  IF ~Declared(head)
  THEN BoxedFunction(head,
         flattenSequence([i \in 1..Len(ops) |-> canonical(def, ops[i])]),
         TRUE)
  ELSE
    LET xs == [i \in 1..Len(ops) |->
                 IF ~shouldHold(def.hold, Len(ops) - 1, i - 1)
                 THEN canonical(def, ops[i])
                 ELSE IF ops[i].head = "ReleaseHold"
                      THEN canonical(def, op1(ops[i]))
                      ELSE ops[i]]
        flat == IF def.associative
                THEN flattenOps(flattenSequence(xs), head)
                ELSE flattenSequence(xs)
        nested == Len(flat) = 1 /\ flat[1].head = head
        once == IF nested /\ def.idempotent THEN flat[1].ops ELSE flat
    IN CASE def.canonical = "result" -> BoxedFunction(head, xs, TRUE)
         [] def.canonical \in {"nothing", "throws"} ->
              BoxedFunction(head, xs, FALSE)
         [] OTHER ->
              IF nested /\ def.involution THEN op1(flat[1])
              ELSE IF Len(once) > 1 /\ def.commutative
                   THEN BoxedFunction(head, sort(once), TRUE)
                   ELSE BoxedFunction(head, once, TRUE)

\* A numeric literal, re + im * i, always canonical
BoxedNumber(re, im) ==
  [head |-> "Number", ops |-> <<>>, canonical |-> TRUE, re |-> re,
   im |-> im]

Zero == BoxedNumber(0, 0)

\* x.numericValue !== null
IsNumber(x) == x.head = "Number"

\* x.numericValue !== null && x.isZero
IsLiteralZero(x) == IsNumber(x) /\ x.re = 0 /\ x.im = 0

isIndexableCollection(x) == x.head = "List"

\* asFloat(x) and getImaginaryCoef(x): <<>> is null
asFloat(x) == IF IsNumber(x) /\ x.im = 0 THEN <<x.re>> ELSE <<>>

getImaginaryCoef(x) == IF IsNumber(x) /\ x.re = 0 THEN <<x.im>> ELSE <<0>>

\* The real and imaginary parts canonicalAdd reads off two operands
ComplexParts(ops) ==
  LET re0 == asFloat(ops[1])
  IN IF re0 # <<>> /\ re0 # <<0>>
     THEN [re |-> re0, im |-> getImaginaryCoef(ops[2])]
     ELSE LET im == getImaginaryCoef(ops[1])
          IN [re |-> IF im # <<0>> /\ IsNumber(ops[2])
                     THEN asFloat(ops[2]) ELSE re0,
              im |-> im]

\* canonicalAdd without the removal of the literal zeros
canonicalAddKeepingZero(ops) ==
  IF Len(ops) = 0 THEN Zero
  ELSE IF Len(ops) = 1 /\ ~isIndexableCollection(ops[1]) THEN ops[1]
  ELSE IF Len(ops) > 1 THEN BoxedFunction("Add", sort(ops), TRUE)
  ELSE BoxedFunction("Add", ops, TRUE)

\* canonicalAdd: the literal zeros are removed, a single operand that is
\* no collection is returned, two operands that make a complex number are
\* merged, several ones are sorted
canonicalAdd(ops) ==
  LET kept == SelectSeq(ops, LAMBDA x : ~IsLiteralZero(x))
      z == ComplexParts(kept)
  IN IF Len(kept) = 0 THEN Zero
     ELSE IF Len(kept) = 1 /\ ~isIndexableCollection(kept[1]) THEN kept[1]
     ELSE IF Len(kept) = 2 /\ z.re # <<>> /\ z.im # <<>> /\ z.im # <<0>>
     THEN BoxedNumber(z.re[1], z.im[1])
     ELSE IF Len(kept) > 1 THEN BoxedFunction("Add", sort(kept), TRUE)
     ELSE BoxedFunction("Add", kept, TRUE)

\* canonicalMultiply on operands that are no numeric literals: a single
\* operand is returned, several ones are sorted

canonicalMultiply(ops) ==
  IF Len(ops) = 0 THEN BoxedSymbol("Nothing")
  ELSE IF Len(ops) = 1 THEN ops[1]
  ELSE BoxedFunction("Multiply", sort(ops), TRUE)

\* ce.add(ops) and ce.mul(ops)
add(ops) == canonicalAdd(flattenOps(flattenSequence(ops), "Add"))

mul(ops) == canonicalMultiply(flattenOps(flattenSequence(ops), " Multiply"))

\* The expressions handed to canonical: boxed without canonicalisation,
\* nested to a depth n
FunctionHeads == {"g", "ReleaseHold", "Sequence"}

Leaves == {BoxedSymbol("a"), BoxedSymbol("b"), ErrorExpression}

RECURSIVE Boxed(_)
Boxed(n) ==
  IF n = 0 THEN Leaves
  ELSE LET sub == Boxed(n - 1)
       IN Leaves
          \cup {BoxedFunction(h, <<x>>, FALSE) :
                  h \in FunctionHeads, x \in sub}
          \cup {BoxedFunction(h, <<x, BoxedSymbol("a")>>, FALSE) :
                  h \in FunctionHeads, x \in sub}

\* The operands handed to ce.add and ce.mul: canonical expressions
Operands ==
  {BoxedSymbol("a"), BoxedSymbol("b"),
   BoxedFunction("Add", <<BoxedSymbol("a"), BoxedSymbol("b")>>, TRUE),
   BoxedFunction("Multiply", <<BoxedSymbol("a"), BoxedSymbol("b")>>, TRUE)}

\* The operands handed to canonicalAdd: canonical expressions, numeric
\* literals and a list among them
AddOperands ==
  {Zero, BoxedNumber(1, 0), BoxedNumber(0, 1), BoxedSymbol("a"),
   BoxedSymbol("b"), BoxedFunction("List", <<BoxedSymbol("a")>>, TRUE),
   BoxedFunction("Add", <<BoxedSymbol("a"), BoxedSymbol("b")>>, TRUE)}

RECURSIVE Tuples(_, _)
Tuples(S, n) ==
  IF n = 0 THEN {<<>>}
  ELSE Tuples(S, n - 1)
       \cup {t \o <<x>> : t \in {u \in Tuples(S, n - 1) : Len(u) = n - 1},
                          x \in S}

\* canonicalAdd(ce, ops)
CanonicalAdd ==
  /\ bx.op = "terms"
  /\ bx' = [op |-> "sum", ops |-> bx.ops, result |-> canonicalAdd(bx.ops)]

\* this._canonical of a function expression: "this", "undefined", or
\* "other" for another expression.  As constructed, and once the getter
\* canonical has run (makeCanonicalFunction makes a new expression or
\* returns an operand, never the expression itself)
Constructed_canonical(x) == IF x.canonical THEN "this" ELSE "undefined"

Read_canonical(x) ==
  IF Constructed_canonical(x) # "undefined" THEN Constructed_canonical(x)
  ELSE IF isValid(x) THEN "other" ELSE "this"

\* e.canonical, for the expression boxed last; isCanonical is what
\* e.isCanonical gives afterwards
Canonical ==
  /\ bx.op = "box"
  /\ bx' = [op |-> "canonical", def |-> bx.def, e |-> bx.e,
            result |-> canonical(bx.def, bx.e),
            isCanonical |-> Read_canonical(bx.e) = "this"]

\* e.canonical.canonical
CanonicalAgain ==
  /\ bx.op = "canonical"
  /\ bx' = [op |-> "again", def |-> bx.def, e |-> bx.e,
            result |-> bx.result,
            again |-> canonical(bx.def, bx.result)]

\* ce.add(ops) or ce.mul(ops)
Build ==
  /\ bx.op = "operands"
  /\ bx' = [op |-> "build", def |-> bx.def, head |-> bx.head,
            ops |-> bx.ops,
            result |-> IF bx.head = "Add" THEN add(bx.ops)
                       ELSE mul(bx.ops)]

-----------------------------------------------------------------------------
(* Hashes, in 32-bit integer arithmetic *)

\* A 32-bit integer is a pair of 16-bit halves, <<high, low>>: its bits,
\* which is what `| 0` keeps of a number
RECURSIVE Xor16(_, _)
Xor16(a, b) ==
  IF a = 0 THEN b
  ELSE IF b = 0 THEN a
  ELSE 2 * Xor16(a \div 2, b \div 2) + ((a + b) % 2)

\* v ^ w
Xor32(v, w) == <<Xor16(v[1], w[1]), Xor16(v[2], w[2])>>

\* w << 1
ShiftLeft(w) ==
  <<(2 * w[1] + (w[2] \div 32768)) % 65536, (2 * w[2]) % 65536>>

\* (v + w) | 0
Add32(v, w) ==
  <<(v[1] + w[1] + ((v[2] + w[2]) \div 65536)) % 65536,
    (v[2] + w[2]) % 65536>>

\* Math.imul(n, w), for a small n
Imul(n, w) ==
  <<(n * w[1] + ((n * w[2]) \div 65536)) % 65536, (n * w[2]) % 65536>>

\* Math.abs(w), in 32 bits
Abs32(w) ==
  IF w[1] >= 32768
  THEN Add32(<<65535 - w[1], 65535 - w[2]>>, <<0, 1>>)
  ELSE w

\* The UTF-16 code units of the names hashed
CharCodes(name) ==
  CASE name = "a" -> <<97>>
    [] name = "b" -> <<98>>
    [] name = "g" -> <<103>>
    [] name = "List" -> <<76, 105, 115, 116>>
    [] name = "BoxedTensor" ->
         <<66, 111, 120, 101, 100, 84, 101, 110, 115, 111, 114>>
    [] OTHER -> <<>>

\* hashCode(s): hash = (Math.imul(31, hash) + s.charCodeAt(i)) | 0 over
\* the string, then Math.abs(hash)
RECURSIVE hashCodeOf(_)
hashCodeOf(codes) ==
  IF Len(codes) = 0 THEN <<0, 0>>
  ELSE Add32(Imul(31, hashCodeOf(SubSeq(codes, 1, Len(codes) - 1))),
             <<0, codes[Len(codes)]>>)

hashCode(name) == Abs32(hashCodeOf(CharCodes(name)))

\* BoxedFunction.hash, and the hash of a symbol (of its name); h is the
\* hash over the operands before i
RECURSIVE hash(_)
RECURSIVE hashOps(_, _)
hash(x) ==
  IF x.head \in Symbols THEN hashCode(x.head)
  ELSE Xor32(hashOps(x.ops, Len(x.ops)), hashCode(x.head))

hashOps(ops, n) ==
  IF n = 0 THEN <<0, 0>>
  ELSE Xor32(ShiftLeft(hashOps(ops, n - 1)), hash(ops[n]))

\* The objects hashed and compared: function expressions, and tensors
\* made from the operands of a List (expr is then BoxedTensor.expression)
Elements ==
  LET leaves == {BoxedSymbol("a"), BoxedSymbol("b")}
  IN leaves \cup {BoxedFunction("g", <<x>>, TRUE) : x \in leaves}

Listed ==
  UNION {[1..n -> Elements] : n \in 1..MaxElements}

Hashed ==
  {[class |-> "BoxedFunction", expr |-> BoxedFunction(h, ops, TRUE)] :
     h \in {"List", "g"}, ops \in Listed}
  \cup {[class |-> "BoxedTensor", expr |-> BoxedFunction("List", ops, TRUE)] :
          ops \in Listed}

\* a.hash
hashOf(a) ==
  IF a.class = "BoxedTensor" THEN hashCode("BoxedTensor") ELSE hash(a.expr)

\* a.isSame(b): BoxedFunction.isSame and BoxedTensor.isSame; two tensors
\* are equal when their elements are
isSameAs(a, b) ==
  IF a.class = "BoxedTensor"
  THEN IF b.class = "BoxedTensor" THEN isSame(a.expr, b.expr)
       ELSE b.class = "BoxedFunction" /\ isSame(a.expr, b.expr)
  ELSE b.class = "BoxedFunction" /\ isSame(a.expr, b.expr)

\* a.isSame(b), a.hash and b.hash
Hash ==
  /\ bx.op = "pair"
  /\ bx' = [op |-> "hash", a |-> bx.a, b |-> bx.b,
            same |-> isSameAs(bx.a, bx.b),
            hashA |-> hashOf(bx.a), hashB |-> hashOf(bx.b)]

-----------------------------------------------------------------------------
(* Pattern matching *)

\* The capture variables of the patterns
Captures == {"_x", "_y"}

\* What stands for rhsTail[i] when the subject has no operand i
Absent == [head |-> "undefined", ops |-> <<>>, canonical |-> FALSE]

\* A substitution is a function from capture names to subjects
EmptySubstitution == [n \in {} |-> Absent]

NoMatch == [status |-> "null", sub |-> EmptySubstitution]
Matched(sub) == [status |-> "match", sub |-> sub]

\* { ...result, ...m }
Spread(result, m) ==
  [n \in DOMAIN result \cup DOMAIN m |->
     IF n \in DOMAIN m THEN m[n] ELSE result[n]]

\* The match of a symbol of the pattern: a capture variable matches any
\* subject and binds it, another symbol matches the symbol of its name;
\* nothing matches undefined
matchSymbol(p, s) ==
  IF s = Absent THEN NoMatch
  ELSE IF p.head \in Captures THEN Matched([n \in {p.head} |-> s])
  ELSE IF s.head = p.head THEN Matched(EmptySubstitution)
  ELSE NoMatch

\* p.match(s): BoxedFunction.match for a function p, with the loop over
\* the operands of p from i on
RECURSIVE match(_, _)
RECURSIVE matchOps(_, _, _, _)
match(p, s) ==
  IF p.head \in Symbols \cup Captures THEN matchSymbol(p, s)
  ELSE IF s = Absent \/ s.head \in Symbols THEN NoMatch
  ELSE IF p.head # s.head THEN NoMatch
  ELSE matchOps(p.ops, s.ops, 1, EmptySubstitution)

matchOps(lhsTail, rhsTail, i, result) ==
  IF i > Len(lhsTail) THEN Matched(result)
  ELSE LET m == match(lhsTail[i],
                      IF i <= Len(rhsTail) THEN rhsTail[i] ELSE Absent)
       IN IF m.status # "match" THEN m
          ELSE matchOps(lhsTail, rhsTail, i + 1, Spread(result, m.sub))

\* The patterns and the subjects matched
PatternOperands ==
  LET leaves == {BoxedSymbol("a"), BoxedSymbol("_x"), BoxedSymbol("_y")}
  IN leaves \cup {BoxedFunction("g", <<x>>, TRUE) : x \in leaves}

Patterns ==
  {BoxedFunction(h, ops, TRUE) :
     h \in {"f", "g"},
     ops \in UNION {[1..n -> PatternOperands] : n \in 1..MaxElements}}

Subjects ==
  {BoxedFunction(h, ops, TRUE) :
     h \in {"f", "g"},
     ops \in UNION {[1..n -> Elements] : n \in 1..MaxElements}}

\* p.match(s)
Match ==
  /\ bx.op = "pattern"
  /\ bx' = [op |-> "match", p |-> bx.p, s |-> bx.s,
            result |-> match(bx.p, bx.s)]

-----------------------------------------------------------------------------
(* Threading over a collection *)

\* The heads evaluated: H is threadable, K is not, Id is inert; none has
\* an evaluate handler
Threadable(head) == head = "H"

Inert(head) == head = "Id"

\* isFiniteIndexableCollection(x): the Lists of the model are
isFiniteIndexableCollection(x) == x.head = "List"

\* x.functionDefinition?.size?.(x) ?? 0
size(x) == IF x.head = "List" THEN Len(x.ops) ELSE 0

\* at(x, index), with 1 the index of the first element
atReversed(x, index) ==
  IF index \in 1..Len(x.ops) THEN x.ops[Len(x.ops) + 1 - index]
  ELSE BoxedSymbol("Nothing")

at(x, index) ==
  IF index \in 1..Len(x.ops) THEN x.ops[index] ELSE BoxedSymbol("Nothing")

\* Math.max(...ns), which is -Infinity for no number at all: no loop
\* iteration then
Maximum(ns) == IF ns = {} THEN 0 ELSE CHOOSE n \in ns : \A m \in ns : m <= n

\* x.evaluate(), for a canonical x
RECURSIVE evaluate(_)
evaluate(x) ==
  IF x.head \in Symbols \/ ~isValid(x) THEN x
  ELSE IF /\ Threadable(x.head)
          /\ \E k \in 1..Len(x.ops) : isFiniteIndexableCollection(x.ops[k])
  THEN LET length == Maximum({size(x.ops[k]) : k \in 1..Len(x.ops)})
           args(i) ==
             [k \in 1..Len(x.ops) |->
                IF isFiniteIndexableCollection(x.ops[k])
                THEN at(x.ops[k], (i % length) + 1)
                ELSE x.ops[k]]
           results ==
             [i \in 1..length |->
                evaluate(BoxedFunction(x.head, args(i - 1), TRUE))]
       IN IF length = 0 THEN BoxedFunction("Sequence", <<>>, TRUE)
          ELSE IF length = 1 THEN results[1]
          ELSE BoxedFunction("List", results, TRUE)
  ELSE LET tail == [k \in 1..Len(x.ops) |-> evaluate(x.ops[k])]
       IN IF Inert(x.head) THEN (IF Len(tail) = 0 THEN x ELSE tail[1])
          ELSE BoxedFunction(x.head, tail, TRUE)

\* The expressions evaluated: H or K of a list or of an element
ListElements ==
  {BoxedSymbol("a"), BoxedSymbol("b"),
   BoxedFunction("Id", <<BoxedSymbol("b")>>, TRUE),
   BoxedFunction("List", <<BoxedSymbol("a"), BoxedSymbol("b")>>, TRUE)}

Lists ==
  {BoxedFunction("List", xs, TRUE) :
     xs \in UNION {[1..n -> ListElements] : n \in 0..MaxLength}}

Evaluated ==
  {BoxedFunction(h, <<x>>, TRUE) :
     h \in {"H", "K"}, x \in Lists \cup ListElements}

\* e.evaluate()
Evaluate ==
  /\ bx.op = "expression"
  /\ bx' = [op |-> "evaluate", e |-> bx.e, result |-> evaluate(bx.e)]

-----------------------------------------------------------------------------
(* The roots of a univariate expression *)

\* The values are exact: a rational number is a pair <<p, q>> in lowest
\* terms with q > 0, and <<1, 0>> is Infinity
RECURSIVE Gcd(_, _)
Gcd(m, n) == IF n = 0 THEN m ELSE Gcd(n, m % n)

Abs(m) == IF m < 0 THEN -m ELSE m

\* ['Divide', p, q], evaluated, q not zero
Rational(p, q) ==
  LET g == Gcd(Abs(p), Abs(q))
  IN IF q < 0 THEN <<(-p) \div g, (-q) \div g>> ELSE <<p \div g, q \div g>>

\* Whether m, positive, is the power n of an integer, and that integer
IsPower(m, n) == \E k \in 1..m : k ^ n = m

Root(m, n) == CHOOSE k \in 1..m : k ^ n = m

\* The expressions the rules of UNIVARIATE_ROOTS match, by the rule and
\* the coefficients bound by the match; the coefficients are integers
\* other than zero and hold no _x, the exponent n is not zero, and the
\* roots and square roots taken are exact
Coefficients == (-MaxCoefficient..MaxCoefficient) \ {0}

Discriminant(eq) == eq.b * eq.b - 4 * eq.a * eq.c

Equations ==
  {[rule |-> "ax", a |-> a, b |-> 0, c |-> 0, n |-> 1] :
     a \in Coefficients}
  \cup {[rule |-> r, a |-> a, b |-> b, c |-> 0, n |-> 1] :
          r \in {"a/x+b", "ax+b"}, a \in Coefficients, b \in Coefficients}
  \cup {eq \in [rule : {"ax^n+b"}, a : Coefficients, b : Coefficients,
                c : {0}, n : 2..MaxPower] :
          eq.b < 0 /\ IsPower(-eq.b, eq.n)}
  \cup {eq \in [rule : {"ax^2+bx+c"}, a : Coefficients, b : Coefficients,
                c : Coefficients, n : {2}] :
          Discriminant(eq) = 0
            \/ (Discriminant(eq) > 0 /\ IsPower(Discriminant(eq), 2))}

\* The replacements of the rules that match eq, in the order of the rule
\* set, each evaluated
findUnivariateRoots(eq) ==
  CASE eq.rule = "ax" -> <<Rational(0, 1)>>
    [] eq.rule = "a/x+b" -> <<(<<1, 0>>)>>
    [] eq.rule = "ax+b" -> <<Rational(-eq.b, eq.a)>>
    [] eq.rule = "ax^n+b" -> <<Rational(Root(-eq.b, eq.n), eq.a)>>
    [] OTHER ->
         LET d == Discriminant(eq)
             sqrt == IF d = 0 THEN 0 ELSE Root(d, 2)
         IN <<Rational(-eq.b + sqrt, 2 * eq.a),
              Rational(-eq.b - sqrt, 2 * eq.a)>>

\* Whether the expression is zero once x is replaced with the value r
\* (a / Infinity is zero, a / 0 is not a number)
IsRoot(eq, r) ==
  LET p == r[1]
      q == r[2]
  IN CASE eq.rule = "a/x+b" ->
            IF q = 0 THEN eq.b = 0
            ELSE p # 0 /\ eq.a * q + eq.b * p = 0
       [] q = 0 -> FALSE
       [] eq.rule = "ax" -> eq.a * p = 0
       [] eq.rule = "ax+b" -> eq.a * p + eq.b * q = 0
       [] eq.rule = "ax^n+b" -> eq.a * (p ^ eq.n) + eq.b * (q ^ eq.n) = 0
       [] OTHER -> eq.a * p * p + eq.b * p * q + eq.c * q * q = 0

\* findUnivariateRoots(expr, x)
Solve ==
  /\ bx.op = "equation"
  /\ bx' = [op |-> "roots", eq |-> bx.eq,
            roots |-> findUnivariateRoots(bx.eq)]

\* The coefficients the exponential rules bind: an integer, or a symbol
\* whose sign is not known; neither holds _x
Number(k) == [known |-> TRUE, n |-> k]

Unknown == [known |-> FALSE, n |-> 0]

Bound == {Number(k) : k \in -MaxCoefficient..MaxCoefficient} \cup {Unknown}

\* x.isZero and x.isNegative: "true", "false", or "undefined"
isZero(x) ==
  IF ~x.known THEN "undefined" ELSE IF x.n = 0 THEN "true" ELSE "false"

isNegative(x) ==
  IF ~x.known THEN "undefined" ELSE IF x.n < 0 THEN "true" ELSE "false"

\* The sign of ce.div(c, a), a not known to be zero: the quotient of two
\* numbers has the sign of c * a, any other quotient has no known sign
div(c, a) ==
  IF c.known /\ a.known THEN Number(c.n * a.n) ELSE Unknown

\* The condition with isNegative read as "is not positive"
conditionNotPositive(a, c) ==
  CASE isZero(a) = "true" -> FALSE
    [] c.known /\ a.known /\ c.n * a.n <= 0 -> TRUE
    [] OTHER -> FALSE

\* The condition of both exponential rules:
\* (!a.isZero && ce.div(c, a).isNegative) ?? false
condition(a, c) ==
  CASE isZero(a) = "true" -> FALSE
    [] isNegative(div(c, a)) = "true" -> TRUE
    [] OTHER -> FALSE

\* The argument of Ln in the replacement, ['Negate', ['Divide', c, a]]
LnArgument(a, c) == Rational(-c.n, a.n)

Exponentials ==
  [rule : {"ae^(bx)+c", "ae^x+c"}, a : Bound, b : Coefficients, c : Bound]

\* One of the two exponential rules, applied to an expression it matches
Exponential ==
  /\ bx.op = "exponential"
  /\ bx' = [op |-> "exponential root", eq |-> bx.eq,
            fired |-> condition(bx.eq.a, bx.eq.c)]

\* The rule sets of solve.ts, and what ce.cache(cacheName, build) returns
\* when the entry of that name holds cached ("undefined": no entry)
RuleSets == {"UNIVARIATE_ROOTS", "HARMONIZATION_RULES"}

Cached(cached, build) == IF cached = "undefined" THEN build ELSE cached

\* findUnivariateRoots(expr, x) up to its first matching attempt, on an
\* expression that one of the exponential rules matches: the rules come
\* from ce.cache('univariate-roots-rules', ...)
MatchRules ==
  /\ bx.op = "to solve"
  /\ bx' = [op |-> "matched", eq |-> bx.eq,
            cached |-> Cached(bx.cached, "UNIVARIATE_ROOTS"),
            found |-> condition(bx.eq.a, bx.eq.c)]

\* harmonize(expr), called when no root was found: its rules come from
\* ce.cache('univariate-roots-rules', ...) as well
Harmonize ==
  /\ bx.op = "matched"
  /\ ~bx.found
  /\ bx' = [op |-> "harmonized", eq |-> bx.eq,
            cached |-> Cached(bx.cached, "HARMONIZATION_RULES"),
            applied |-> Cached(bx.cached, "HARMONIZATION_RULES")]

-----------------------------------------------------------------------------
(* Tensors *)

\* expressionTensorInfo(head, rows): the visit of the rows, axis by axis.
\* st holds shape (shape[axis] is st.shape[axis + 1], undefined beyond the
\* length), valid, and whether dtype is defined
RECURSIVE visit(_, _, _, _)
RECURSIVE visitItems(_, _, _, _, _)
visit(head, t, axis, st) ==
  IF Len(t) = 0 THEN st
  ELSE visitItems(head, t, 1, axis,
         IF Len(t) > 1 /\ axis + 1 <= Len(st.shape)
         THEN [st EXCEPT !.valid = @ /\ st.shape[axis + 1] = Len(t)]
         ELSE IF axis + 1 <= Len(st.shape)
         THEN [st EXCEPT !.shape[axis + 1] = Maximum({@, Len(t)})]
         ELSE [st EXCEPT !.shape = Append(@, Len(t))])

visitItems(head, t, i, axis, st) ==
  IF i > Len(t) THEN st
  ELSE LET after == IF t[i].head = head
                    THEN visit(head, t[i].ops, axis + 1, st)
                    ELSE [st EXCEPT !.dtype = TRUE]
       IN IF ~after.valid THEN after
          ELSE visitItems(head, t, i + 1, axis, after)

expressionTensorInfo(head, rows) ==
  visit(head, rows, 0, [shape |-> <<>>, valid |-> TRUE, dtype |-> FALSE])

\* The data of expressionAsTensor: the items under the nested heads, in
\* order (every item can be cast to the data type)
RECURSIVE TensorItems(_, _)
TensorItems(head, t) ==
  IF Len(t) = 0 THEN <<>>
  ELSE (IF Head(t).head = head THEN TensorItems(head, Head(t).ops)
        ELSE <<Head(t)>>) \o TensorItems(head, Tail(t))

\* expressionAsTensor(head, rows); defined: the result is not undefined
expressionAsTensor(head, rows) ==
  LET info == expressionTensorInfo(head, rows)
  IN IF ~info.valid \/ ~info.dtype
     THEN [defined |-> FALSE, shape |-> <<>>, data |-> <<>>]
     ELSE [defined |-> TRUE, shape |-> info.shape,
           data |-> TensorItems(head, rows)]

\* The rows handed to expressionAsTensor: symbols, and lists of symbols
Rows ==
  LET leaves == {BoxedSymbol("a"), BoxedSymbol("b")}
      lists == {BoxedFunction("List", ops, TRUE) :
                  ops \in Tuples(leaves, MaxElements)}
  IN Tuples(leaves \cup lists, MaxElements) \ {<<>>}

\* expressionAsTensor('List', rows)
ExpressionAsTensor ==
  /\ bx.op = "rows"
  /\ bx' = [op |-> "tensor data", rows |-> bx.rows,
            result |-> expressionAsTensor("List", bx.rows)]

\* A BoxedTensor made from a head and operands: its fields, _tensor being
\* whether the tensor is made; the expression is not canonical when
\* options.canonical is false
BoxedTensor(head, ops, isCanonical) ==
  [_head |-> head, _ops |-> ops, _tensor |-> FALSE,
   expression |-> BoxedFunction(head, ops, isCanonical)]

\* What head, isCanonical and isValid give for a BoxedTensor
Getters(t) ==
  [head |-> IF t._tensor THEN "List" ELSE t._head,
   isCanonical |-> IF t._tensor THEN TRUE ELSE t.expression.canonical,
   isValid |-> IF t._tensor THEN TRUE ELSE isValid(t.expression)]

\* get tensor(), which shape, rank, and isSame and isEqual with another
\* tensor read: the tensor is made on demand, or 'Invalid tensor' is
\* raised
Tensor ==
  /\ bx.op = "tensor"
  /\ LET made == bx.t._tensor \/ expressionAsTensor(bx.t._head, bx.t._ops).defined
     IN bx' = [op |-> "tensor read", before |-> bx.t,
               t |-> [bx.t EXCEPT !._tensor = made], threw |-> ~made]

-----------------------------------------------------------------------------
(* The multiplicative inverse *)

\* An integer or rational literal p / q, in lowest terms, q > 0
BoxedRational(p, q) ==
  [head |-> "Rational", ops |-> <<>>, canonical |-> TRUE,
   p |-> Rational(p, q)[1], q |-> Rational(p, q)[2]]

One == BoxedRational(1, 1)

NegativeOne == BoxedRational(-1, 1)

isOne(x) == x.head = "Rational" /\ x.p = 1 /\ x.q = 1

isNegativeOne(x) == x.head = "Rational" /\ x.p = -1 /\ x.q = 1

\* ce.inv(expr); the literals are finite
inv(expr) ==
  IF isOne(expr) THEN One
  ELSE IF isNegativeOne(expr) THEN NegativeOne
  ELSE IF expr.head = "Rational" THEN BoxedRational(expr.q, expr.p)
  ELSE IF expr.head = "Divide"
  THEN BoxedFunction("Divide", <<expr.ops[1], expr.ops[2]>>, TRUE)
  ELSE IF expr.head = "Power"
  THEN IF isNegativeOne(expr.ops[2]) THEN expr.ops[1]
       ELSE LET e == BoxedRational(-expr.ops[2].p, expr.ops[2].q)
            IN IF isNegativeOne(e)
               THEN BoxedFunction("Divide", <<One, expr.ops[1]>>, TRUE)
               ELSE BoxedFunction("Power", <<expr.ops[1], e>>, TRUE)
  ELSE BoxedFunction("Divide", <<One, expr>>, TRUE)

\* The number an expression denotes, a rational <<p, q>>, when the symbol
\* a is 2 and the symbol b is 3; the exponents are integers
RECURSIVE Value(_)
Value(x) ==
  CASE x.head = "Rational" -> <<x.p, x.q>>
    [] x.head = "a" -> <<2, 1>>
    [] x.head = "b" -> <<3, 1>>
    [] x.head = "Divide" ->
         LET u == Value(x.ops[1])
             v == Value(x.ops[2])
         IN Rational(u[1] * v[2], u[2] * v[1])
    [] x.head = "Power" ->
         LET u == Value(x.ops[1])
             n == x.ops[2].p
         IN IF n >= 0 THEN Rational(u[1] ^ n, u[2] ^ n)
            ELSE Rational(u[2] ^ (-n), u[1] ^ (-n))

\* The expressions handed to ce.inv: literals other than zero, symbols,
\* quotients and integer powers of these
Invertible ==
  LET literals == {BoxedRational(p, q) : p \in Coefficients, q \in 1..MaxPower}
      atoms == literals \cup {BoxedSymbol("a"), BoxedSymbol("b")}
  IN atoms
     \cup {BoxedFunction("Divide", <<x, y>>, TRUE) : x \in atoms, y \in atoms}
     \cup {BoxedFunction("Power", <<x, BoxedRational(n, 1)>>, TRUE) :
             x \in {BoxedSymbol("a"), BoxedSymbol("b")},
             n \in (-MaxPower..MaxPower) \ {0}}

\* ce.inv(expr)
Inv ==
  /\ bx.op = "to invert"
  /\ bx' = [op |-> "inverse", e |-> bx.e, result |-> inv(bx.e)]

-----------------------------------------------------------------------------
(* Indexing sets *)

MAX_ITERATION == 1000000

\* The bounds of an indexing set: a small integer, Nothing (the operand
\* is missing), Infinity, or a symbol
IndexBounds ==
  {[kind |-> "integer", n |-> k] : k \in 0..MaxLength}
  \cup {[kind |-> k, n |-> 0] : k \in {"Nothing", "Infinity", "symbol"}}

\* The indexing sets: the index alone (held or not), or a Single, Pair or
\* Tuple of the index and the bounds
IndexingSets ==
  LET nothing == [kind |-> "Nothing", n |-> 0]
  IN {[form |-> f, lower |-> nothing, upper |-> nothing] :
        f \in {"symbol", "Hold", "Single"}}
     \cup {[form |-> "Pair", lower |-> l, upper |-> nothing] :
             l \in IndexBounds}
     \cup {[form |-> "Tuple", lower |-> l, upper |-> u] :
             l \in IndexBounds, u \in IndexBounds}

\* asSmallInteger(x): <<>> is null
asSmallInteger(x) == IF x.kind = "integer" THEN <<x.n>> ELSE <<>>

\* normalizeIndexingSet(limits)
normalizeIndexingSet(limits) ==
  IF limits.form \in {"Single", "Pair", "Tuple"}
  THEN LET l == asSmallInteger(limits.lower)
           u == asSmallInteger(limits.upper)
           lower == IF l = <<>> THEN 1 ELSE l[1]
           isFinite == ~(limits.upper.kind \in {"Nothing", "Infinity"})
                         /\ u # <<>>
       IN [index |-> "n", lower |-> lower,
           upper |-> IF isFinite THEN u[1] ELSE lower + MAX_ITERATION,
           isFinite |-> isFinite]
  ELSE [index |-> "n", lower |-> 1, upper |-> 1 + MAX_ITERATION,
        isFinite |-> TRUE]

\* normalizeIndexingSet(limits)
NormalizeIndexingSet ==
  /\ bx.op = "indexing set"
  /\ bx' = [op |-> "normalized", limits |-> bx.limits,
            result |-> normalizeIndexingSet(bx.limits)]

-----------------------------------------------------------------------------
(* The parts of the state a specification does not use *)

IdleBoxed == bx = NoBoxed
IdleEval == stack = <<>> /\ evalCall = NoCall
IdleSimplify == simp = NoSimplify /\ costFn = <<>> /\ rules = <<>>
IdleCheapest == ch = [pc |-> "idle"]
IdleHold == hm = NoHoldMap
IdleCache ==
  /\ cache = [k \in CacheNames |-> NoEntry]
  /\ config = [precision |-> DefaultPrecision, numericMode |-> "auto"]
  /\ cacheOp = NoCacheOp

-----------------------------------------------------------------------------
(* The scope stack and the assumptions *)

ScopeOnly ==
  <<evalVars, simpVars, ch, hm, cacheVars, bx>>

ScopeInit ==
  InitScopes /\ IdleBoxed /\ IdleEval /\ IdleSimplify /\ IdleCheapest
  /\ IdleHold
  /\ IdleCache

ScopeNext ==
  \/ \E arg \in ScopeArgs : PushScope(arg) /\ UNCHANGED ScopeOnly
  \/ PopScope /\ UNCHANGED ScopeOnly
  \/ \E a \in Assumptions : Assume(a) /\ UNCHANGED ScopeOnly
  \/ \E id \in Identifiers, all \in BOOLEAN :
       Forget(id, all) /\ UNCHANGED ScopeOnly

SpecScope == ScopeInit /\ [][ScopeNext]_vars

\* What a step that is a successful pushScope does, limits apart: the
\* child is current, its parent is the scope that was current, its
\* assumptions equal the parent's, and the parent is as it was
PushLinksChild ==
  /\ context' = Len(scopes) + 1
  /\ scopes'[context'].parentScope = context
  /\ scopes'[context'].assumptions = scopes[context].assumptions
  /\ scopes'[context] = scopes[context]

\* What a step that is a successful popScope does: the parent of the
\* scope that was current is current again, with the assumptions it had
\* when the popped scope was pushed
PopRestoresParent ==
  /\ context' = scopes[context].parentScope
  /\ context' # 0 => scopes'[context'].assumptions = scopes[context].saved

IsPush == scopeOp'.op = "pushScope" /\ ~scopeOp'.threw

IsPop == scopeOp'.op = "popScope" /\ ~scopeOp'.threw

\* C12: a pushScope is refused when it would make the scope chain deeper
\* than the recursionLimit current when it is called, so that the depth
\* of the chain never exceeds the limit.
C12PushWithinRecursionLimit ==
  [][IsPush => Depth(scopes', context') <= recursionLimit]_vars

\* C2, as stated: pushScope creates a child of the current scope whose
\* four limits and assumptions are copies of the parent's; popScope,
\* after any assume / forget calls in the child, makes the parent current
\* again with the assumptions it had before pushScope.
C2AllLimitsCopied ==
  [][/\ IsPush =>
        /\ PushLinksChild
        /\ scopes'[context'].limits = scopes[context].limits
     /\ IsPop => PopRestoresParent]_vars

\* C2, amended: the limits of the child are copies of the parent's except
\* those that the argument of pushScope gives, which take the given
\* value; the rest of C2 as stated.
C2LimitsCopiedUnlessGiven ==
  [][/\ IsPush =>
        /\ PushLinksChild
        /\ \A k \in LimitNames :
             scopes'[context'].limits[k] =
               IF k \in DOMAIN scopeOp'.arg THEN scopeOp'.arg[k]
               ELSE scopes[context].limits[k]
     /\ IsPop => PopRestoresParent]_vars

\* C2, witness: popScope has left a scope whose assumptions had been
\* changed by assume / forget, and a scope pushed with a limit of its
\* own is alive
C2PoppedChangedScope ==
  /\ scopeOp.op = "popScope" /\ ~scopeOp.threw /\ context # 0
  /\ scopeOp.left # scopes[context].assumptions
  /\ scopes[context].assumptions # {}
  /\ scopes[context].limits # RootLimits

(* The declarations *)

DeclareInit ==
  InitScopes /\ IdleBoxed /\ IdleEval /\ IdleSimplify /\ IdleCheapest
  /\ IdleHold
  /\ IdleCache

\* The identifiers declared: a free one, a library one, and the two that
\* can never be declared
DeclareIds == {"x", "Sin", "Nothing", "1x"}

DeclareNext ==
  \/ PushScope(NoScopeArg) /\ UNCHANGED ScopeOnly
  \/ PopScope /\ UNCHANGED ScopeOnly
  \/ \E id \in DeclareIds, arg \in DeclareArgs :
       Declare(id, FALSE, arg) /\ UNCHANGED ScopeOnly
  \/ \E id \in DeclareIds : Declare(id, TRUE, "domain") /\ UNCHANGED ScopeOnly

SpecDeclare == DeclareInit /\ [][DeclareNext]_vars

IsDeclare == scopeOp'.op = "declare" /\ scopeOp'.id # "Nothing"

IsInferred(d) == d.kind = "symbol" /\ d.inferredDomain

\* C10, as stated: declare(id, def), id other than Nothing, raises
\* whenever id already has a definition that is not an inferred symbol
\* definition, and then no identifier map changes; when the existing
\* definition is an inferred symbol definition, the same object is
\* updated in place and stops being inferred.
C10RefusesAnyExisting ==
  [][IsDeclare =>
       LET id == scopeOp'.id
           d == Visible(scopes, id, context)
       IN /\ d.kind # "none" /\ ~IsInferred(d) =>
               scopeOp'.threw /\ AllIds' = AllIds
          /\ IsInferred(d) /\ ~scopeOp'.threw =>
               LET e == Visible(scopes', id, context')
               IN e.obj = d.obj /\ ~e.inferredDomain]_vars

\* C10, amended: the definition that counts is the one in the identifier
\* map of the current scope.  When it is not an inferred symbol
\* definition declare raises and no identifier map changes; when it is an
\* inferred symbol definition and declare does not raise, the map keeps
\* the same definition object, and the object stops being inferred when
\* def is given as a domain.
C10RefusesDeclaredInScope ==
  [][IsDeclare /\ context # 0 =>
       LET id == scopeOp'.id
           d == scopes[context].ids[id]
       IN /\ d.kind # "none" /\ ~IsInferred(d) =>
               scopeOp'.threw /\ AllIds' = AllIds
          /\ IsInferred(d) /\ ~scopeOp'.threw =>
               LET e == scopes'[context].ids[id]
               IN /\ e.obj = d.obj /\ e.kind = "symbol"
                  /\ ~isSymbolDefinition(scopeOp'.arg) => ~e.inferredDomain]_vars

\* C10, witness: declare has refused an identifier that the current
\* scope defines, while an inferred definition of another identifier has
\* been redeclared with a domain and is no longer inferred
C10Refused ==
  /\ scopeOp.op = "declare" /\ scopeOp.branch = "declared"
  /\ context # 0
  /\ scopes[context].ids[scopeOp.id].kind # "none"
  /\ \E s \in DOMAIN scopes, id \in Identifiers :
       scopes[s].ids[id].kind = "symbol" /\ ~scopes[s].ids[id].inferredDomain

(* The evaluation of an expression, between changes of the current scope *)

EvalOnly ==
  <<scopeOp, simpVars, ch, hm, cacheVars, bx>>

EvalInit ==
  InitScopes /\ IdleBoxed /\ IdleEval /\ IdleSimplify /\ IdleCheapest
  /\ IdleHold
  /\ IdleCache

EvalNext ==
  \/ /\ stack = <<>> /\ Len(scopes) < MaxScopes
     /\ PushScope(NoScopeArg) /\ evalCall' = NoCall
     /\ UNCHANGED <<stack, simpVars, ch, hm, cacheVars, bx>>
  \/ /\ stack = <<>>
     /\ PopScope /\ evalCall' = NoCall
     /\ UNCHANGED <<stack, simpVars, ch, hm, cacheVars, bx>>
  \/ \E e \in TopExprs : EvalCall(e) /\ UNCHANGED EvalOnly
  \/ EvalStart /\ UNCHANGED EvalOnly
  \/ CanonicalHead /\ UNCHANGED EvalOnly
  \/ CanonicalHeadEvaluate /\ UNCHANGED EvalOnly
  \/ CanonicalHeadDone /\ UNCHANGED EvalOnly
  \/ CanonicalHandler /\ UNCHANGED EvalOnly
  \/ CanonicalDone /\ UNCHANGED EvalOnly
  \/ EvalOperand /\ UNCHANGED EvalOnly
  \/ EvalSwap /\ UNCHANGED EvalOnly
  \/ EvalHandler /\ UNCHANGED EvalOnly
  \/ EvalRestore /\ UNCHANGED EvalOnly
  \/ SumStart /\ UNCHANGED EvalOnly
  \/ SumPush /\ UNCHANGED EvalOnly
  \/ SumTerm /\ UNCHANGED EvalOnly
  \/ SumPop /\ UNCHANGED EvalOnly
  \/ SumRestore /\ UNCHANGED EvalOnly
  \/ Exit /\ UNCHANGED EvalOnly

SpecEval == EvalInit /\ [][EvalNext]_vars

\* C1: when a call of evaluate is over, by a normal return or by an
\* error raised in a handler or a nested call, the current scope is the
\* scope that was current when evaluate was called.
C1ContextRestored ==
  evalCall.status \in {"returned", "raised"} => context = evalCall.entry

(* simplify *)

SimplifyOnly ==
  <<scopeVars, evalVars, ch, hm, cacheVars, bx>>

\* The default configuration, or a scope pushed with an iteration limit
SimplifyInit ==
  /\ \/ scopes = <<RootScope, UserScope>> /\ context = 2
     \/ \E n \in {1, MaxLimit} :
          scopes = <<RootScope, UserScope, LimitedScope(n)>> /\ context = 3
  /\ scopeOp = NoScopeOp
  /\ simp = NoSimplify
  /\ costFn \in [Expr -> Costs]
  /\ rules \in [Expr -> Expr \cup {Null}]
  /\ IdleEval /\ IdleBoxed /\ IdleCheapest /\ IdleHold /\ IdleCache

SimplifyNext ==
  \/ \E e \in Expr, recursive \in BOOLEAN :
       SimplifyCall(e, recursive) /\ UNCHANGED SimplifyOnly
  \/ SimplifyExpand /\ UNCHANGED SimplifyOnly
  \/ SimplifyHandler /\ UNCHANGED SimplifyOnly
  \/ SimplifyLoop /\ UNCHANGED SimplifyOnly
  \/ SimplifyReturn /\ UNCHANGED SimplifyOnly

SpecSimplify == SimplifyInit /\ [][SimplifyNext]_vars

\* A call of simplify that has entered its loop goes on running
SpecSimplifyFair ==
  SpecSimplify /\ WF_vars(SimplifyLoop /\ UNCHANGED SimplifyOnly)

\* C3: in the default configuration the rule loop of simplify
\* terminates, for every expression and every rule set.
C3LoopTerminates ==
  (simp.pc = "loop" /\ iterationLimit = PositiveInfinity)
    ~> (simp.pc # "loop")

\* C4: when the rule loop stops before iterationLimit iterations have
\* been made, replace(rules) on the expression it stops with returns
\* null.
C4StopsAtFixedPoint ==
  simp.pc = "loopDone" /\ Less(simp.count, iterationLimit) =>
    replace(simp.expr) = Null

\* C6, as stated: the result of simplify costs no more than any form
\* the call has considered.
C6CheapestSeen ==
  simp.pc = "returned" =>
    \A f \in simp.seen : costFn[simp.result] <= costFn[f]

\* C6, amended: the result of simplify is one of the forms the call has
\* considered, and it costs at most 1.2 times what the canonical input
\* costs.
C6WithinBiasOfInput ==
  simp.pc = "returned" =>
    /\ simp.result \in simp.seen
    /\ 10 * costFn[simp.result] <= 12 * costFn[simp.input]

\* C6, witness: simplify has returned a form other than its input, after
\* considering a form that costs less than the input
C6ReturnedOtherForm ==
  /\ simp.pc = "returned" /\ simp.result # simp.input
  /\ \E f \in simp.seen : costFn[f] < costFn[simp.input]

(* cheapest *)

MaxCost == 7        \* the largest cost in the calls of cheapest

CheapestOnly ==
  <<scopeVars, evalVars, simp, rules, hm, cacheVars, bx>>

CheapestInit ==
  /\ InitScopes /\ IdleEval /\ IdleBoxed /\ IdleHold /\ IdleCache
  /\ simp = NoSimplify /\ rules = <<>>
  /\ costFn \in [Expr -> 0..MaxCost]
  /\ \E old \in Expr, new \in Expr \cup {Null} :
       ch = [pc |-> "call", old |-> old, new |-> new, result |-> Null]

CheapestNext ==
  \/ CheapestCall /\ UNCHANGED CheapestOnly

SpecCheapest == CheapestInit /\ [][CheapestNext]_vars

\* C5: cheapest(old, new) returns new iff new is not null and
\* cost(new) <= 1.2 * cost(old); otherwise it returns old.
C5CostBiasedAcceptance ==
  ch.pc = "done" =>
    IF ch.new # Null /\ 10 * costFn[ch.new] <= 12 * costFn[ch.old]
    THEN ch.result = ch.new
    ELSE ch.result = ch.old

\* C5, witness: cheapest has returned a new form that costs more than
\* the old one
C5AcceptedDearer ==
  /\ ch.pc = "done" /\ ch.new # Null /\ ch.result = ch.new
  /\ costFn[ch.new] > costFn[ch.old]

(* holdMap *)

HoldOnly ==
  <<scopeVars, evalVars, simpVars, ch, cacheVars, bx>>

\* The lists of at most n heads
RECURSIVE OperandLists(_)
OperandLists(n) ==
  IF n = 0 THEN {<<>>}
  ELSE LET shorter == OperandLists(n - 1)
       IN shorter \cup {Append(xs, h) : xs \in shorter, h \in Heads}

HoldInit ==
  /\ InitScopes /\ IdleBoxed /\ IdleEval /\ IdleSimplify /\ IdleCheapest
  /\ IdleCache
  /\ \E xs \in OperandLists(MaxOps), skip \in Holds :
       \E nulls \in SUBSET (1..Len(xs)) :
         \/ hm = HoldCall("holdMap", xs, skip, nulls)
         \/ nulls = {} /\ hm = HoldCall("makeCanonicalFunction", xs, skip, {})

HoldNext ==
  \/ HoldMapStart /\ UNCHANGED HoldOnly
  \/ HoldMapNone /\ UNCHANGED HoldOnly
  \/ HoldMapLoop /\ UNCHANGED HoldOnly
  \/ CanonicalOperand /\ UNCHANGED HoldOnly

SpecHold == HoldInit /\ [][HoldNext]_vars

\* The positions, counted from 1, that a policy holds among n operands
Held(skip, n) ==
  CASE skip = "all" -> 1..n
    [] skip = "none" -> {}
    [] skip = "first" -> {1}
    [] skip = "rest" -> 2..n
    [] skip = "last" -> {n}
    [] skip = "most" -> 1..(n - 1)

\* C7: an operand headed neither Hold nor ReleaseHold is left as given by
\* holdMap, and not made canonical by makeCanonicalFunction, exactly
\* when the policy holds its position: all, every position; none, no
\* position; first, the first; rest, all but the first; last, the last;
\* most, all but the last.  Otherwise it is processed.
C7HoldByPosition ==
  hm.pc = "done" =>
    \A i \in 1..Len(hm.xs) :
      hm.xs[i] = "Other" =>
        IF i \in Held(hm.skip, Len(hm.xs))
        THEN /\ \A c \in hm.calls : c.pos # i
             /\ \E k \in 1..Len(hm.result) : hm.result[k] = AsGiven(i)
        ELSE /\ Processed(i, "operand") \in hm.calls
             /\ \A k \in 1..Len(hm.result) : hm.result[k] # AsGiven(i)

\* C7, witness: under first, the first of several operands was left as
\* given and another one was processed
C7FirstHeld ==
  /\ hm.pc = "done" /\ hm.skip = "first" /\ Len(hm.xs) = MaxOps
  /\ \A i \in 1..Len(hm.xs) : hm.xs[i] = "Other"
  /\ hm.result[1] = AsGiven(1)
  /\ Processed(Len(hm.xs), "operand") \in hm.calls

\* C8: under every policy holdMap leaves an operand headed Hold as
\* given, without applying f to it, and applies f to the operand of an
\* operand headed ReleaseHold, whose place in the result is taken by
\* what f returns.
C8HoldAndReleaseHold ==
  hm.pc = "done" /\ hm.fn = "holdMap" =>
    \A i \in 1..Len(hm.xs) :
      /\ hm.xs[i] = "Hold" =>
           /\ \A c \in hm.calls : c.pos # i
           /\ \E k \in 1..Len(hm.result) : hm.result[k] = AsGiven(i)
      /\ hm.xs[i] = "ReleaseHold" =>
           /\ Processed(i, "op1") \in hm.calls
           /\ \A k \in 1..Len(hm.result) : hm.result[k] # AsGiven(i)

(* The caches *)

CacheOnly ==
  <<scopeVars, evalVars, simpVars, ch, hm, bx>>

CacheInit ==
  /\ InitScopes /\ IdleBoxed /\ IdleEval /\ IdleSimplify /\ IdleCheapest
  /\ IdleHold
  /\ cache = [k \in CacheNames |-> NoEntry]
  /\ cacheOp = NoCacheOp
  /\ \E numericMode \in NumericModes,
        numericPrecision \in {10, DefaultPrecision, 200} :
       config = Constructed(numericMode, numericPrecision)

CacheNext ==
  \/ \E name \in CacheNames, build \in {"truthy", "falsy", "throws"},
        purge \in Purges :
       Cache(name, build, purge) /\ UNCHANGED CacheOnly
  \/ \E p \in Precisions : SetPrecision(p, FALSE) /\ UNCHANGED CacheOnly
  \/ SetPrecision(0, TRUE) /\ UNCHANGED CacheOnly
  \/ \E f \in NumericModes : SetNumericMode(f) /\ UNCHANGED CacheOnly

SpecCache == CacheInit /\ [][CacheNext]_vars

\* C9: once the precision or the numeric mode has changed, cache() does
\* not return a value stored before the change unless the value went
\* through the purge callback of its entry, and it does not return
\* undefined without having called build.
C9FlushedThenRebuilt ==
  cacheOp.op = "cache" =>
    /\ cacheOp.value.fresh
    /\ cacheOp.value.kind = "undefined" => cacheOp.built

\* C11: after precision = p, p a positive number, the precision getter
\* returns the larger of p and the machine precision, and when p is
\* larger than the machine precision the numeric mode is auto or bignum.
C11PrecisionAssigned ==
  cacheOp.op = "precision" /\ cacheOp.p > 0 =>
    /\ precision = IF cacheOp.p > MachinePrecision THEN cacheOp.p
                   ELSE MachinePrecision
    /\ cacheOp.p > MachinePrecision =>
         config.numericMode \in {"auto", "bignum"}

-----------------------------------------------------------------------------
(* Boxed expressions: canonical form, hash, match, threading, roots *)

BoxedOnly ==
  <<scopeVars, evalVars, simpVars, ch, hm, cacheVars>>

\* An expression boxed and not yet canonical under a definition of g, the
\* operands of ce.add or ce.mul, two expressions to hash and compare, a
\* pattern and a subject, an expression to evaluate, or an expression
\* the root rules match
BoxedInit ==
  /\ InitScopes /\ IdleEval /\ IdleSimplify /\ IdleCheapest /\ IdleHold
  /\ IdleCache
  /\ \/ \E def \in FunctionDefinitions, e \in Boxed(MaxNesting) :
          bx = [op |-> "box", def |-> def, e |-> e]
     \/ \E def \in FunctionDefinitions :
          /\ def.canonical = "none" /\ def.hold = "none"
          /\ \E head \in {"Add", "Multiply"}, x, y \in Operands :
               bx = [op |-> "operands", def |-> def, head |-> head,
                     ops |-> <<x, y>>]
     \/ \E a, b \in Hashed : bx = [op |-> "pair", a |-> a, b |-> b]
     \/ \E p \in Patterns, s \in Subjects :
          bx = [op |-> "pattern", p |-> p, s |-> s]
     \/ \E e \in Evaluated : bx = [op |-> "expression", e |-> e]
     \/ \E eq \in Equations : bx = [op |-> "equation", eq |-> eq]
     \/ \E eq \in Exponentials : bx = [op |-> "exponential", eq |-> eq]
     \/ \E eq \in Exponentials, cached \in {"undefined", "UNIVARIATE_ROOTS"} :
          bx = [op |-> "to solve", eq |-> eq, cached |-> cached]
     \/ \E rows \in Rows : bx = [op |-> "rows", rows |-> rows]
     \/ \E rows \in Rows, head \in {"List", "g"}, isCanonical \in BOOLEAN :
          bx = [op |-> "tensor", t |-> BoxedTensor(head, rows, isCanonical)]
     \/ \E e \in Invertible : bx = [op |-> "to invert", e |-> e]
     \/ \E limits \in IndexingSets :
          bx = [op |-> "indexing set", limits |-> limits]
     \/ \E ops \in Tuples(AddOperands, MaxLength) :
          bx = [op |-> "terms", ops |-> ops]

BoxedNext ==
  \/ Canonical /\ UNCHANGED BoxedOnly
  \/ CanonicalAgain /\ UNCHANGED BoxedOnly
  \/ Build /\ UNCHANGED BoxedOnly
  \/ Hash /\ UNCHANGED BoxedOnly
  \/ Match /\ UNCHANGED BoxedOnly
  \/ Evaluate /\ UNCHANGED BoxedOnly
  \/ Solve /\ UNCHANGED BoxedOnly
  \/ Exponential /\ UNCHANGED BoxedOnly
  \/ CanonicalAdd /\ UNCHANGED BoxedOnly
  \/ NormalizeIndexingSet /\ UNCHANGED BoxedOnly
  \/ Inv /\ UNCHANGED BoxedOnly
  \/ ExpressionAsTensor /\ UNCHANGED BoxedOnly
  \/ Tensor /\ UNCHANGED BoxedOnly
  \/ MatchRules /\ UNCHANGED BoxedOnly
  \/ Harmonize /\ UNCHANGED BoxedOnly

SpecBoxed == BoxedInit /\ [][BoxedNext]_vars

\* Whether the tree of x holds an Error node
RECURSIVE HasError(_)
HasError(x) ==
  x.head = "Error" \/ \E i \in 1..Len(x.ops) : HasError(x.ops[i])

\* C13: the canonical form of a function expression whose tree holds no
\* Error node is canonical (isCanonical), whatever a canonical handler of
\* its head does.
C13CanonicalIsCanonical ==
  bx.op = "canonical" /\ ~HasError(bx.e) => bx.result.canonical

\* C14: canonicalisation is idempotent: the canonical form of the
\* canonical form of e is the same expression (isSame) as the canonical
\* form of e, for every flag combination and hold policy of its head.
C14CanonicalIdempotent ==
  bx.op = "again" /\ ~HasError(bx.e) => isSame(bx.again, bx.result)

\* Whether the head is associative under the definition def of g
Associative(def, head) ==
  head \in {"Add", "Multiply"} \/ (head = "g" /\ def.associative)

\* Whether x is flat throughout: no operand with the head Sequence, no
\* operand of an associative head with that head
RECURSIVE Flat(_, _)
Flat(def, x) ==
  \A i \in 1..Len(x.ops) :
    /\ x.ops[i].head # "Sequence"
    /\ Associative(def, x.head) => x.ops[i].head # x.head
    /\ Flat(def, x.ops[i])

\* C15: the flatten law: in the canonical form of an expression, and in
\* what ce.add and ce.mul build, no node with an associative head has an
\* operand with the same head, and no node has a Sequence operand.
C15FlattenLaw ==
  /\ bx.op = "canonical" /\ ~HasError(bx.e) => Flat(bx.def, bx.result)
  /\ bx.op = "build" => Flat(bx.def, bx.result)

-----------------------------------------------------------------------------
(* The hash of a function expression and of a tensor *)

\* C16: the hash law: when a.isSame(b), a and b being function
\* expressions or tensors, a.hash equals b.hash (as 32-bit integers).
C16SameHaveSameHash ==
  bx.op = "hash" /\ bx.same => bx.hashA = bx.hashB

-----------------------------------------------------------------------------
(* The match of a pattern and a subject *)

\* C17: a pattern and a subject with the same head and different numbers
\* of operands do not match: match returns null.
C17OperandCountsMatch ==
  bx.op = "match" /\ bx.p.head = bx.s.head
    /\ Len(bx.p.ops) # Len(bx.s.ops) => bx.result.status = "null"

\* C18: a match of a pattern that has the same capture variable at
\* several operand positions succeeds only when the subjects at these
\* positions are the same (isSame), and it binds the variable to that
\* subject; otherwise match returns null.
C18CapturesUnified ==
  bx.op = "match" /\ bx.p.head = bx.s.head
    /\ Len(bx.p.ops) = Len(bx.s.ops) /\ bx.result.status # "null" =>
      \A i, j \in 1..Len(bx.p.ops) :
        bx.p.ops[i].head \in Captures
          /\ bx.p.ops[j].head = bx.p.ops[i].head =>
            /\ isSame(bx.s.ops[i], bx.s.ops[j])
            /\ bx.p.ops[i].head \in DOMAIN bx.result.sub
            /\ isSame(bx.result.sub[bx.p.ops[i].head], bx.s.ops[i])

-----------------------------------------------------------------------------
(* The evaluation of a threadable function of a list *)

\* H(L) has been evaluated, H threadable and L a list
Threaded ==
  /\ bx.op = "evaluate"
  /\ Threadable(bx.e.head)
  /\ bx.e.ops[1].head = "List"

\* H of each element of the list, evaluated, in the order of the list
EachEvaluated ==
  LET L == bx.e.ops[1].ops
  IN [i \in 1..Len(L) |-> evaluate(BoxedFunction(bx.e.head, <<L[i]>>, TRUE))]

\* C19, as stated: the value of H(L), H threadable and L a list of any
\* length, is the List of H of each element of L, evaluated, in order.
C19ThreadedIsList ==
  Threaded => isSame(bx.result, BoxedFunction("List", EachEvaluated, TRUE))

\* C19, amended: the value of H(L) is that List when L has two elements
\* or more; it is H of the element, evaluated, when L has one element,
\* and the empty Sequence when L has none.
C19ThreadedByLength ==
  Threaded =>
    LET n == Len(bx.e.ops[1].ops)
    IN isSame(bx.result,
              CASE n = 0 -> BoxedFunction("Sequence", <<>>, TRUE)
                [] n = 1 -> EachEvaluated[1]
                [] OTHER -> BoxedFunction("List", EachEvaluated, TRUE))

\* H was threaded over a list of different elements, one of them changed
\* by its evaluation
C19ThreadedOverList ==
  /\ Threaded
  /\ Len(bx.e.ops[1].ops) >= 2
  /\ bx.e.ops[1].ops[1] # bx.e.ops[1].ops[2]
  /\ \E i \in 1..Len(bx.e.ops[1].ops) :
       ~isSame(bx.result.ops[i],
               BoxedFunction(bx.e.head, <<bx.e.ops[1].ops[i]>>, TRUE))

-----------------------------------------------------------------------------
(* The roots found by the rules *)

\* C20: every value that findUnivariateRoots returns from a match of one
\* of the rules a*x, a/x + b, a*x + b, a*x^n + b and the two quadratic
\* rules is a root of the matched expression.
C20ReturnedAreRoots ==
  bx.op = "roots" =>
    \A i \in 1..Len(bx.roots) : IsRoot(bx.eq, bx.roots[i])

-----------------------------------------------------------------------------
(* The exponential rules *)

NumericExponential ==
  bx.op = "exponential root" /\ bx.eq.a.known /\ bx.eq.c.known

\* C21, as stated: an exponential rule fires exactly when a is not zero
\* and -c/a < 0 is false.
C21FiresUnlessNegative ==
  NumericExponential =>
    (bx.fired <=> (bx.eq.a.n # 0 /\ ~((-bx.eq.c.n) * bx.eq.a.n < 0)))

\* C21, amended: an exponential rule fires exactly when a and c are
\* numbers, a is not zero and -c/a is positive; the argument of Ln in
\* the root it produces is then positive.
C21FiresWhenPositive ==
  bx.op = "exponential root" =>
    /\ bx.fired <=> (NumericExponential /\ bx.eq.a.n # 0
                       /\ (-bx.eq.c.n) * bx.eq.a.n > 0)
    /\ bx.fired => LET arg == LnArgument(bx.eq.a, bx.eq.c)
                   IN arg[1] > 0 /\ arg[2] > 0

C21Fired == bx.op = "exponential root" /\ bx.fired

-----------------------------------------------------------------------------
(* The canonical form of a sum *)

\* The operands of a sum that are no literal zero
Remaining == SelectSeq(bx.ops, LAMBDA x : ~IsLiteralZero(x))

\* C22: the sum canonicalAdd builds has no literal zero among its
\* operands; when no operand remains the result is 0; when exactly one
\* operand remains and it is no indexable collection, the result is that
\* operand, not wrapped in an Add.
C22CanonicalAddRemovesZero ==
  bx.op = "sum" =>
    /\ bx.result.head = "Add" =>
         \A i \in 1..Len(bx.result.ops) : ~IsLiteralZero(bx.result.ops[i])
    /\ Len(Remaining) = 0 => bx.result = Zero
    /\ (Len(Remaining) = 1 /\ ~isIndexableCollection(Remaining[1])) =>
         bx.result = Remaining[1]

C22OneRemains ==
  /\ bx.op = "sum"
  /\ Len(bx.ops) > 1
  /\ Len(Remaining) = 1
  /\ ~isIndexableCollection(Remaining[1])
  /\ bx.result = Remaining[1]

-----------------------------------------------------------------------------
(* The rules of harmonize *)

\* C23: when the first matching attempt of findUnivariateRoots finds no
\* root, the rule set harmonize applies is HARMONIZATION_RULES, whatever
\* was cached on the engine before.
C23HarmonizeAppliesItsRules ==
  bx.op = "harmonized" => bx.applied = "HARMONIZATION_RULES"

-----------------------------------------------------------------------------
(* declare and assign under the user scope *)

AssignNext ==
  \/ PushScope(NoScopeArg) /\ UNCHANGED ScopeOnly
  \/ \E id \in DeclareIds, arg \in DeclareArgs :
       Declare(id, FALSE, arg) /\ UNCHANGED ScopeOnly
  \/ \E id \in DeclareIds, value \in AssignValues :
       Assign(id, value) /\ UNCHANGED ScopeOnly

SpecAssign == DeclareInit /\ [][AssignNext]_vars

\* C24: while the user scope is not popped, no declare and no assign
\* adds, removes or replaces an entry of the identifier map of the
\* topmost scope, which holds the library.
C24RootScopeProtected == scopes[1].ids = RootScope.ids

-----------------------------------------------------------------------------
(* The index of a sum *)

SumOnly == <<evalVars, simpVars, ch, hm, cacheVars>>

SumNext ==
  \/ \E id \in DeclareIds, arg \in DeclareArgs :
       Declare(id, FALSE, arg) /\ UNCHANGED <<SumOnly, bx>>
  \/ \E id \in DeclareIds, value \in AssignValues :
       Assign(id, value) /\ UNCHANGED <<SumOnly, bx>>
  \/ \E bodyCanonical \in BOOLEAN :
       CanonicalSummation(bodyCanonical) /\ UNCHANGED SumOnly
  \/ EvalSummation /\ UNCHANGED SumOnly

SpecSum == DeclareInit /\ [][SumNext]_vars

-----------------------------------------------------------------------------
(* Reading the canonical form *)

\* C26: reading e.canonical does not change e.isCanonical; an expression
\* that is not canonical and holds an Error still reports isCanonical =
\* false once its canonical form has been read.
C26ReadingKeepsIsCanonical ==
  bx.op = "canonical" => bx.isCanonical = bx.e.canonical

-----------------------------------------------------------------------------
(* Tensors made on demand *)

\* C27: making the tensor of a BoxedTensor on demand does not change what
\* head, isCanonical and isValid give.
C27MaterialisationKeepsGetters ==
  bx.op = "tensor read" => Getters(bx.t) = Getters(bx.before)

RECURSIVE Product(_)
Product(shape) ==
  IF Len(shape) = 0 THEN 1 ELSE Head(shape) * Product(Tail(shape))

\* The rows are all symbols, or all lists of one length
Rectangular(rows) ==
  \/ \A i \in 1..Len(rows) : rows[i].head # "List"
  \/ \A i \in 1..Len(rows) :
       rows[i].head = "List" /\ Len(rows[i].ops) = Len(rows[1].ops)

\* C28: the data expressionAsTensor returns for nested lists has as many
\* items as the product of the entries of the shape, and rows that are
\* ragged, a row of length 1 included, give undefined.
C28DataFillsShape ==
  bx.op = "tensor data" =>
    /\ bx.result.defined => Len(bx.result.data) = Product(bx.result.shape)
    /\ ~Rectangular(bx.rows) => ~bx.result.defined

-----------------------------------------------------------------------------
(* The inverse denotes the reciprocal *)

\* C29: ce.inv(expr) denotes the multiplicative inverse of expr: the
\* inverse of a / b denotes b / a, the inverse of x^n denotes x^(-n), and
\* the inverse of an integer or a rational other than zero is its
\* reciprocal.
C29InvDenotesReciprocal ==
  bx.op = "inverse" =>
    LET u == Value(bx.e)
    IN Value(bx.result) = Rational(u[2], u[1])

-----------------------------------------------------------------------------
(* The range of an indexing set *)

\* C30: normalizeIndexingSet gives isFinite = true only when a finite
\* lower bound and a finite upper bound are both given; for an index
\* alone, held or not, isFinite is false; and whenever isFinite is false
\* the upper bound is the lower bound + MAX_ITERATION.
C30FiniteOnlyWithBothBounds ==
  bx.op = "normalized" =>
    /\ bx.result.isFinite =>
         bx.limits.lower.kind = "integer" /\ bx.limits.upper.kind = "integer"
    /\ bx.limits.form \in {"symbol", "Hold"} => ~bx.result.isFinite
    /\ ~bx.result.isFinite =>
         bx.result.upper = bx.result.lower + MAX_ITERATION

====
